---- MODULE Spec2Model ----
(***************************************************************************)
(* Model of the oms-go order management core.                              *)
(*                                                                         *)
(*   Part I   the matching engine: OrderBook.Match over two PriceHeaps     *)
(*            driven by container/heap (engine package).                   *)
(*   Part II  the order service: OrderService.CreateOrder / OnTrade with   *)
(*            the position service, the liquidation service, the mock      *)
(*            matching gateway and the event bus (service, snapshot).      *)
(*                                                                         *)
(* Prices and quantities are float64 in the source.  They are modelled as  *)
(* integers (ticks / lots) and, where the code divides, as exact           *)
(* rationals; rounding of float64 is not modelled.                         *)
(***************************************************************************)
EXTENDS Integers, Sequences, FiniteSets

\* ------------------------------------------------------------------ bounds
MaxSubmits == 3
MaxFifoSubmits == 4
MaxPrice == 2
MaxQty == 2
MaxStep == 1

VARIABLES
  bids,        \* OrderBook.bids.orders : the heap array of resting BUY orders
  asks,        \* OrderBook.asks.orders : the heap array of resting SELL orders
  now,         \* the clock read by time.Now() when an order is built
  submitted,   \* number of orders handed to Match so far (ids are 1, 2, ...)
  prevBids,    \* bids as they were when the last Match started
  prevAsks,    \* asks as they were when the last Match started
  lastOrder,   \* the order the last Match was called with, as passed in
  lastAfter,   \* the same order when Match returned (Quantity is decremented in place)
  lastTrades,  \* the trade list the last Match returned
  orders,        \* memory.OrderBook.orders : order id -> Order
  positions,     \* memory.PositionBook.positions : key(user, symbol) -> Position
  idGen,         \* idgen.Generator.id, shared by the order and liquidation services
  esSequence,    \* EventStore.sequence
  esLog,         \* the lines of events.log
  esErr,         \* the bufio.Writer of the store holds a write error
  ssLastEventID, \* SystemState.LastEventID
  ssTimestamp,   \* SystemState.Timestamp
  gateway,       \* the liquidation orders the matching gateway has received
  crashed,       \* the process has panicked
  ingested,      \* order id -> sum of the trade quantities OnTrade was given for it
  callerOrder,   \* the client's order object when the last CreateOrder returned
  created,       \* number of OrderService.CreateOrder calls made by clients
  traded,        \* number of OrderService.OnTrade calls made by the matching side
  busSet,        \* the services were constructed with an EventBus
  esClosed,      \* EventStore.closed
  snaps,         \* the snapshot directory: <<timestamp, sequence>> of the file name -> file
  tmps,          \* the same directory's files named <snapshot name>.tmp
  lastPublish,   \* what the last EventBus.Publish saw before, left behind and returned
  lastApply,     \* what the last direct SystemState.ApplyEvent saw and left behind
  lastSnap,      \* the outcome of the last SnapshotManager.TakeSnapshot
  taken,         \* number of TakeSnapshot calls made
  faults,        \* number of restarts, closes, redeliveries and disk corruptions so far
  intBits,       \* the width of Go's int in the build: 32 or 64
  shardNum,      \* len(ShardedMatchingEngine.shards)
  inCh,          \* engineShard.inCh of each shard: the queued request numbers, oldest first
  shardBooks,    \* engineShard.books of each shard: symbol -> [bids, asks]
  cur,           \* the request each shard's loop has received and is matching (0: none)
  reqs,          \* the Submit calls made so far: order, shard, position of the caller, trades
  entered,       \* per shard, the request numbers in the order they entered inCh
  matched,       \* per shard, the request numbers in the order Match ran for them
  panicked,      \* a goroutine panicked: the process is gone
  closed,        \* ShardedMatchingEngine.Close has closed the shards' closed channels
  exited,        \* per shard, the loop goroutine has returned
  blocked,       \* per shard, the requests whose send on the full inCh is waiting, oldest first
  dispNum,       \* len(Dispatcher.workers)
  wCh,           \* Worker.ch of each worker: the queued task numbers, oldest first
  wBlocked,      \* per worker, the tasks whose send on the full ch is waiting, oldest first
  wRan,          \* per worker, the task numbers in the order the worker started them
  wSeen,         \* per worker, the position quantity the running task has read
  tasks,         \* the Dispatch calls made so far: key, fill quantity, worker, progress
  dQty,          \* Qty of the position the dispatched fills belong to
  chk,           \* a LiquidationService.Check call: the position, the mark price, the result
  pubMu,         \* EventBus.mu: 0 when free, else the goroutine holding it
  pubPc,         \* goroutine -> its position in CreateOrder / EventBus.Publish
  pubEv,         \* goroutine -> the event it publishes
  applied,       \* the order ids of the events ApplyEvent has applied, in that order
  hist,          \* the System State after each completed ApplyEvent, the empty one first
  snapPc,        \* the position of the snapshot goroutine in ToSnapshot
  snapBuf        \* the Snapshot it is filling in

bookVars == <<bids, asks, submitted, prevBids, prevAsks, lastOrder, lastAfter, lastTrades>>

omsVars == <<orders, positions, idGen, esSequence, esLog, esErr, ssLastEventID,
             ssTimestamp, gateway, crashed, ingested, callerOrder, created, traded, busSet>>

snapVars == <<esClosed, snaps, tmps, lastPublish, lastApply, lastSnap, taken, faults>>

shardVars == <<intBits, shardNum, inCh, shardBooks, cur, reqs, entered, matched, panicked,
               closed, exited, blocked>>

dispVars == <<dispNum, wCh, wBlocked, wRan, wSeen, tasks, dQty, chk>>

pubVars == <<pubMu, pubPc, pubEv, applied, hist, snapPc, snapBuf>>

vars == <<now, bookVars, omsVars, snapVars, shardVars, dispVars, pubVars>>

\* ------------------------------------------------------------ domain types
Buy == "BUY"
Sell == "SELL"
Limit == "LIMIT"
Market == "MARKET"
IOC == "IOC"
Submitted == "SUBMITTED"
PartFilled == "PART_FILLED"
Filled == "FILLED"
Canceled == "CANCELED"
Rejected == "REJECTED"

Sides == {Buy, Sell}
OrderTypes == {Limit, Market, IOC}

NoOrder == [ID |-> 0]

Symbol0 == "BTCUSDT"

NewOrder(id, user, side, type, price, qty, createdAt) ==
  [ID |-> id, UserID |-> user, Symbol |-> Symbol0, Side |-> side, Type |-> type,
   Price |-> price, Quantity |-> qty, FilledQty |-> 0, Status |-> Submitted,
   CreatedAt |-> createdAt]

\* ---------------------------------------------------------------- helpers
min(a, b) == IF a < b THEN a ELSE b

Swap(s, i, j) == [s EXCEPT ![i] = s[j], ![j] = s[i]]

\* ---------------------------------------------------------------- PriceHeap
LessMinHeapOnly(side, a, b) ==
  IF a.Price = b.Price THEN a.CreatedAt < b.CreatedAt ELSE a.Price < b.Price

\* PriceHeap.Less on two orders of the heap of the given side
Less(side, a, b) ==
  IF a.Price = b.Price
    THEN a.CreatedAt < b.CreatedAt
    ELSE IF side = Buy THEN a.Price > b.Price ELSE a.Price < b.Price

\* container/heap.up, 1-based: the parent of j is j \div 2
RECURSIVE up(_, _, _)
up(side, s, j) ==
  LET i == j \div 2 IN
  IF j = 1 \/ ~Less(side, s[j], s[i])
    THEN s
    ELSE up(side, Swap(s, i, j), i)

\* container/heap.down over the first n elements, 1-based: children 2i, 2i+1
RECURSIVE down(_, _, _, _)
down(side, s, i, n) ==
  LET j1 == 2 * i
      j2 == j1 + 1
      j  == IF j2 <= n /\ Less(side, s[j2], s[j1]) THEN j2 ELSE j1
  IN IF j1 > n THEN s
     ELSE IF ~Less(side, s[j], s[i]) THEN s
     ELSE down(side, Swap(s, i, j), j, n)

\* heap.Push(h, x): PriceHeap.Push appends, then up from the last index
HeapPush(side, s, x) == up(side, Append(s, x), Len(s) + 1)

\* heap.Pop(h): swap first and last, down over n-1, PriceHeap.Pop takes the last
HeapPop(side, s) ==
  LET n  == Len(s)
      s2 == down(side, Swap(s, 1, n), 1, n - 1)
  IN [item |-> s2[n], heap |-> SubSeq(s2, 1, n - 1)]

\* ---------------------------------------------------------- OrderBook.Match
NoCrossStrict(order, best) ==
  \/ order.Side = Buy /\ order.Price <= best.Price
  \/ order.Side = Sell /\ order.Price >= best.Price

\* the price check of Match: TRUE when the loop must push best back and break
NoCross(order, best) ==
  \/ order.Side = Buy /\ order.Price < best.Price
  \/ order.Side = Sell /\ order.Price > best.Price

TradePriceOfTaker(order, best) == order.Price

\* the Price field of both trade records of one match
TradePrice(order, best) == best.Price

\* qty := min(order.Quantity, best.Quantity)
FillQty(order, best) == min(order.Quantity, best.Quantity)

\* takerTrade and makerTrade, in the order they are appended to trades
TradePair(order, best, qty) ==
  << [OrderID |-> order.ID, UserID |-> order.UserID, Symbol |-> order.Symbol,
      Side |-> order.Side, Price |-> TradePrice(order, best), Qty |-> qty,
      IsMaker |-> FALSE],
     [OrderID |-> best.ID, UserID |-> best.UserID, Symbol |-> best.Symbol,
      Side |-> best.Side, Price |-> TradePrice(order, best), Qty |-> qty,
      IsMaker |-> TRUE] >>

\* the matching loop of Match; side is the side of the opposing heap
RECURSIVE MatchLoop(_, _, _, _)
MatchLoop(order, side, heap, trades) ==
  IF ~(order.Quantity > 0 /\ Len(heap) > 0)
    THEN [order |-> order, heap |-> heap, trades |-> trades]
    ELSE
      LET p    == HeapPop(side, heap)
          best == p.item
      IN IF NoCross(order, best)
           THEN [order |-> order, heap |-> HeapPush(side, p.heap, best), trades |-> trades]
           ELSE
             LET qty    == FillQty(order, best)
                 order2 == [order EXCEPT !.Quantity = @ - qty]
                 best2  == [best EXCEPT !.Quantity = @ - qty]
                 heap2  == IF best2.Quantity > 0
                             THEN HeapPush(side, p.heap, best2)
                             ELSE p.heap
             IN MatchLoop(order2, side, heap2, trades \o TradePair(order, best, qty))

RestsAlways(order) == order.Quantity > 0

RestsFilled(order) == order.Type # IOC

\* "Non-IOC orders can rest on book"
Rests(order) == order.Quantity > 0 /\ order.Type # IOC

\* OrderBook.Match: the book and the trades after matching order against [bids, asks]
Match(b, a, order) ==
  LET r == IF order.Side = Buy
             THEN MatchLoop(order, Sell, a, <<>>)
             ELSE MatchLoop(order, Buy, b, <<>>)
      b1 == IF order.Side = Buy THEN b ELSE r.heap
      a1 == IF order.Side = Buy THEN r.heap ELSE a
  IN [bids   |-> IF Rests(r.order) /\ order.Side = Buy THEN HeapPush(Buy, b1, r.order) ELSE b1,
      asks   |-> IF Rests(r.order) /\ order.Side = Sell THEN HeapPush(Sell, a1, r.order) ELSE a1,
      order  |-> r.order,
      trades |-> r.trades]

\* ------------------------------------------------------------------ actions
BookInit ==
  /\ bids = <<>>
  /\ asks = <<>>
  /\ submitted = 0
  /\ prevBids = <<>>
  /\ prevAsks = <<>>
  /\ lastOrder = NoOrder
  /\ lastAfter = NoOrder
  /\ lastTrades = <<>>

\* MatchingEngine.SubmitOrder / engineShard.loop for the one symbol: build the
\* order with CreatedAt = time.Now() and run Match on the symbol's book
SubmitOrder(side, type, price, qty, step) ==
  LET t     == now + step
      order == NewOrder(submitted + 1, 100 + submitted + 1, side, type, price, qty, t)
      m     == Match(bids, asks, order)
  IN /\ now' = t
     /\ submitted' = submitted + 1
     /\ prevBids' = bids
     /\ prevAsks' = asks
     /\ lastOrder' = order
     /\ lastAfter' = m.order
     /\ lastTrades' = m.trades
     /\ bids' = m.bids
     /\ asks' = m.asks

PricesOf(type) == IF type = Limit THEN 1..MaxPrice ELSE 0..MaxPrice

Submit ==
  /\ submitted < MaxSubmits
  /\ \E side \in Sides, type \in OrderTypes, qty \in 1..MaxQty, step \in 0..MaxStep :
       \E price \in PricesOf(type) : SubmitOrder(side, type, price, qty, step)

SubmitLimit ==
  /\ submitted < MaxFifoSubmits
  /\ \E side \in Sides, price \in 1..MaxPrice, qty \in 1..MaxQty, step \in 0..MaxStep :
       SubmitOrder(side, Limit, price, qty, step)

\* =================================================================== Part II
\* ------------------------------------------------------- exact "float64"
\* A float64 value that the code obtains by division: n/d with d > 0, or
\* +Inf (1/0), -Inf (-1/0), NaN (0/0).
Abs(x) == IF x < 0 THEN -x ELSE x

Sign(x) == IF x > 0 THEN 1 ELSE IF x < 0 THEN -1 ELSE 0

RECURSIVE GCD(_, _)
GCD(a, b) == IF b = 0 THEN a ELSE GCD(b, a % b)

Rat(n, d) ==
  IF d = 0 THEN [n |-> Sign(n), d |-> 0]
  ELSE LET g == GCD(Abs(n), Abs(d))
       IN [n |-> (Sign(d) * n) \div g, d |-> Abs(d) \div g]

RInt(i) == [n |-> i, d |-> 1]

NaN == [n |-> 0, d |-> 0]

IsFinite(a) == a.d # 0

RNeg(a) == [n |-> -a.n, d |-> a.d]

RAdd(a, b) ==
  IF a.d = 0 /\ b.d = 0
    THEN (IF a.n = b.n THEN a ELSE NaN)
    ELSE Rat(a.n * b.d + b.n * a.d, a.d * b.d)

RSub(a, b) == RAdd(a, RNeg(b))

RMul(a, b) == Rat(a.n * b.n, a.d * b.d)

\* a / b; a zero divisor is +0 (the sum of two opposite quantities)
RDiv(a, b) ==
  IF b.d = 0
    THEN (IF b.n = 0 \/ a.d = 0 THEN NaN ELSE RInt(0))
    ELSE IF b.n = 0
      THEN Rat(a.n, 0)
      ELSE Rat(a.n * b.d * Sign(b.n), a.d * Abs(b.n))

\* a <= b; false when either is NaN
RLe(a, b) ==
  /\ a # NaN
  /\ b # NaN
  /\ IF a.d = 0 /\ b.d = 0 THEN a.n <= b.n ELSE a.n * b.d <= b.n * a.d

\* ------------------------------------------------------------- constants
GeneratorStart == 1000
DefaultLeverage == 10
MMRNum == 5
MMRDen == 1000
MockMarketPrice == 38000
TicksPerSecond == 2

\* --------------------------------------------------------- bounds, Part II
MaxUsers == 2
MaxOrders == 2
MaxTrades == 2
MaxOrderQty == 2
MaxTradeQty == 2
MaxTradePrice == 2

EventOrderCreated == "ORDER_CREATED"
EventPositionUpdated == "POSITION_UPDATED"
NoData == [null |-> TRUE]

IoOk == "ok"
IoFlushFail == "flushFail"
IoSyncFail == "syncFail"
IoTornWrite == "tornWrite"

IoModes == {IoOk, IoFlushFail, IoTornWrite, IoSyncFail}

\* time.Time.Unix(): whole seconds of a clock value
Unix(t) == t \div TicksPerSecond

\* the (user, symbol) key of the position book
key(uid, symbol) == <<symbol, uid>>

\* the service-layer state, as one value the handlers transform
OmsState ==
  [orders |-> orders, positions |-> positions, idGen |-> idGen,
   esSequence |-> esSequence, esLog |-> esLog, esErr |-> esErr,
   ssLastEventID |-> ssLastEventID, ssTimestamp |-> ssTimestamp,
   gateway |-> gateway, crashed |-> crashed, ingested |-> ingested,
   esClosed |-> esClosed, lastPublish |-> lastPublish]

Put(f, k, v) == [x \in DOMAIN f \cup {k} |-> IF x = k THEN v ELSE f[x]]

\* ------------------------------------------------------ EventStore / EventBus
\* snapshot.NewEvent: the event as built by the service, checksum over
\* {id, type, timestamp, data}
NewEvent(id, type, data, t) ==
  [ID |-> id, Type |-> type, Timestamp |-> t, Data |-> data,
   Checksum |-> <<id, type, t, data>>]

\* SystemState.ApplyEvent: [st |-> state after, err |-> an error is returned]
ApplyEvent(st, ev) ==
  LET st1 == [st EXCEPT !.ssLastEventID = ev.ID, !.ssTimestamp = Unix(ev.Timestamp)]
  IN IF ev.Data = NoData THEN [st |-> st1, err |-> TRUE]
     ELSE IF ev.Type = EventOrderCreated
       THEN [st |-> [st1 EXCEPT !.orders = Put(@, ev.Data.Order.ID, ev.Data.Order)],
             err |-> FALSE]
     ELSE IF ev.Type = EventPositionUpdated
       THEN [st |-> [st1 EXCEPT !.positions =
                        Put(@, key(ev.Data.Position.UserID, ev.Data.Position.Symbol),
                            ev.Data.Position)],
             err |-> FALSE]
     ELSE [st |-> st1, err |-> FALSE]

\* Event.calculateChecksum: the hash over {id, type, timestamp, data}
calculateChecksum(ev) == <<ev.ID, ev.Type, ev.Timestamp, ev.Data>>

\* Event.Verify
Verify(ev) == ev.Checksum = calculateChecksum(ev)

\* a line of events.log holding the JSON document of an event
Line(ev) == [json |-> TRUE, open |-> FALSE, ev |-> ev]

\* a line of events.log that is no JSON document: what a failed write left of
\* an event; open: the line has no trailing newline yet
TornLine(ev, open) == [json |-> FALSE, open |-> open, ev |-> ev]

\* the file after a write in O_APPEND mode: bytes written behind a line without
\* a newline become part of that line
WriteLine(log, line) ==
  IF Len(log) > 0 /\ log[Len(log)].open
    THEN [log EXCEPT ![Len(log)] = TornLine(@.ev, line.open)]
    ELSE Append(log, line)

\* EventStore.Append: [st |-> store after, err |-> an error is returned].  A
\* closed store refuses; otherwise the sequence is advanced first; a failed
\* flush leaves nothing or a part of the line on disk and the bufio.Writer keeps
\* its error; a failed Sync leaves the line written
StoreAppend(st, ev, io) ==
  LET seq == st.esSequence + 1
      rec == [ev EXCEPT !.ID = seq, !.Checksum = calculateChecksum([ev EXCEPT !.ID = seq])]
  IN IF st.esClosed
       THEN [st |-> st, err |-> TRUE]
     ELSE IF st.esErr \/ io = IoFlushFail
       THEN [st |-> [st EXCEPT !.esSequence = seq, !.esErr = TRUE], err |-> TRUE]
     ELSE IF io = IoTornWrite
       THEN [st |-> [st EXCEPT !.esSequence = seq, !.esErr = TRUE,
                               !.esLog = WriteLine(@, TornLine(rec, TRUE))],
             err |-> TRUE]
     ELSE [st |-> [st EXCEPT !.esSequence = seq, !.esLog = WriteLine(@, Line(rec))],
           err |-> io = IoSyncFail]

\* what readers of the System State observe: order map, position map, last_event_id
View(st) == <<st.orders, st.positions, st.ssLastEventID>>

\* EventBus.Publish: apply to the state first, then persist; the error of
\* either step is returned
Publish(st, ev, io) ==
  LET a == ApplyEvent(st, ev)
      r == IF a.err THEN [st |-> a.st, err |-> TRUE] ELSE StoreAppend(a.st, ev, io)
  IN [r.st EXCEPT !.lastPublish =
        [called |-> TRUE, err |-> r.err, appendFailed |-> ~a.err /\ r.err,
         assigned |-> IF a.err \/ st.esClosed THEN 0 ELSE r.st.esSequence,
         before |-> View(st), after |-> View(r.st)]]

\* --------------------------------------------------------- PositionService
PositionAfterReopened(st, userID, symbol, qty, price, leverage) ==
  [UserID |-> userID, Symbol |-> symbol, Qty |-> qty, EntryPrice |-> RInt(price),
   Leverage |-> leverage, Margin |-> RDiv(RInt(Abs(qty) * price), RInt(leverage))]

PositionAfterRemargined(st, userID, symbol, qty, price, leverage) ==
  IF key(userID, symbol) \notin DOMAIN st.positions
    THEN PositionAfterReopened(st, userID, symbol, qty, price, leverage)
    ELSE LET p == st.positions[key(userID, symbol)]
         IN [p EXCEPT
               !.EntryPrice = RDiv(RAdd(RMul(p.EntryPrice, RInt(p.Qty)), RInt(price * qty)),
                                   RInt(p.Qty + qty)),
               !.Qty = p.Qty + qty,
               !.Margin = RDiv(RInt(Abs(p.Qty + qty) * price), RInt(leverage))]

\* the position PositionService.OnTrade computes for a fill
PositionAfter(st, userID, symbol, qty, price, leverage) ==
  IF key(userID, symbol) \notin DOMAIN st.positions
    THEN [UserID |-> userID, Symbol |-> symbol, Qty |-> qty,
          EntryPrice |-> RInt(price), Leverage |-> leverage,
          Margin |-> RDiv(RInt(Abs(qty) * price), RInt(leverage))]
    ELSE LET p == st.positions[key(userID, symbol)]
         IN [p EXCEPT
               !.EntryPrice = RDiv(RAdd(RMul(p.EntryPrice, RInt(p.Qty)), RInt(price * qty)),
                                   RInt(p.Qty + qty)),
               !.Qty = p.Qty + qty]

\* json.Marshal of the event payload fails on a non-finite float
PositionData(p) ==
  IF IsFinite(p.EntryPrice) /\ IsFinite(p.Margin)
    THEN [Position |-> p, Reason |-> "TRADE"]
    ELSE NoData

\* PositionService.OnTrade: an existing position is updated in place before
\* the event is published; a new one is stored by the event (or by Save)
PositionOnTrade(st, userID, symbol, qty, price, leverage, io, t) ==
  LET k   == key(userID, symbol)
      p   == PositionAfter(st, userID, symbol, qty, price, leverage)
      st1 == IF k \in DOMAIN st.positions
               THEN [st EXCEPT !.positions = Put(@, k, p)]
               ELSE st
  IN IF busSet
       THEN Publish(st1, NewEvent(0, EventPositionUpdated, PositionData(p), t), io)
       ELSE [st1 EXCEPT !.positions = Put(@, k, p)]

\* ------------------------------------------------------ LiquidationService
CheckStrict(p, markPrice) ==
  LET mm     == Rat(Abs(p.Qty) * markPrice * MMRNum, MMRDen)
      upnl   == RMul(RSub(RInt(markPrice), p.EntryPrice), RInt(p.Qty))
      equity == RAdd(p.Margin, upnl)
  IN RLe(equity, mm) /\ equity # mm

\* LiquidationService.Check: equity <= maintenance margin
Check(p, markPrice) ==
  LET mm     == Rat(Abs(p.Qty) * markPrice * MMRNum, MMRDen)
      upnl   == RMul(RSub(RInt(markPrice), p.EntryPrice), RInt(p.Qty))
      equity == RAdd(p.Margin, upnl)
  IN RLe(equity, mm)

LiquidationOrderSameSide(id, p) ==
  [OrderID |-> id, UserID |-> p.UserID, Symbol |-> p.Symbol,
   Side |-> IF p.Qty < 0 THEN Sell ELSE Buy, Quantity |-> Abs(p.Qty),
   OrderType |-> Market, TimeInForce |-> "IOC", Reason |-> "LIQUIDATION"]

\* the order LiquidationService.Execute builds for a position
LiquidationOrder(id, p) ==
  [OrderID |-> id, UserID |-> p.UserID, Symbol |-> p.Symbol,
   Side |-> IF p.Qty < 0 THEN Buy ELSE Sell, Quantity |-> Abs(p.Qty),
   OrderType |-> Market, TimeInForce |-> "IOC", Reason |-> "LIQUIDATION"]

\* the fill MockMatching.SendLiquidationOrder hands back to OrderService.OnTrade
MockTrade(o) ==
  [OrderID |-> o.OrderID, Qty |-> o.Quantity, Price |-> MockMarketPrice,
   UserID |-> 0, Symbol |-> "", Side |-> "", IsMaker |-> FALSE]

\* ------------------------------------------------------------ OrderService
signedQty(side, qty) == IF side = Sell THEN -qty ELSE qty

FillClamped(o, t) ==
  LET f == min(o.FilledQty + t.Qty, o.Quantity)
  IN IF o.Status = Filled THEN o
     ELSE [o EXCEPT !.FilledQty = f,
                    !.Status = IF f >= o.Quantity THEN Filled ELSE @]

\* the order record after lines 85-88 of OnTrade
Fill(o, t) ==
  LET f == o.FilledQty + t.Qty
  IN [o EXCEPT !.FilledQty = f,
               !.Status = IF f >= o.Quantity THEN Filled ELSE @]

\* OrderService.OnTrade, with the calls it makes: the position update, the
\* liquidation check, Execute and the gateway's call back into OnTrade.  A
\* trade whose order is not in the book dereferences a nil order (o.Side) and
\* the process panics.
RECURSIVE OnTradeStep(_, _, _, _)
OnTradeStep(st, t, io, tm) ==
  IF t.OrderID \notin DOMAIN st.orders
    THEN [st EXCEPT !.crashed = TRUE]
    ELSE
      LET o   == Fill(st.orders[t.OrderID], t)
          st1 == [st EXCEPT !.orders = Put(@, t.OrderID, o),
                            !.ingested = Put(@, t.OrderID, @[t.OrderID] + t.Qty)]
          st2 == PositionOnTrade(st1, t.UserID, t.Symbol, signedQty(o.Side, t.Qty),
                                 t.Price, DefaultLeverage, io, tm)
          k   == key(t.UserID, t.Symbol)
      IN IF k \in DOMAIN st2.positions /\ Check(st2.positions[k], t.Price)
           THEN LET id  == st2.idGen + 1
                    lo  == LiquidationOrder(id, st2.positions[k])
                    st3 == [st2 EXCEPT !.idGen = id, !.gateway = Append(@, lo)]
                IN OnTradeStep(st3, MockTrade(lo), io, tm)
           ELSE st2

\* OrderService.CreateOrder after a passed risk check
CreateOrderStep(st, o, io, t) ==
  LET id  == st.idGen + 1
      o2  == [o EXCEPT !.ID = id, !.Status = Submitted, !.CreatedAt = t]
      st1 == [st EXCEPT !.idGen = id, !.ingested = Put(@, id, 0)]
  IN [st |-> IF busSet
               THEN Publish(st1, NewEvent(0, EventOrderCreated, [Order |-> o2], t), io)
               ELSE [st1 EXCEPT !.orders = Put(@, id, o2)],
      order |-> o2]

\* ------------------------------------------------------------------ actions
NoPublish ==
  [called |-> FALSE, err |-> FALSE, appendFailed |-> FALSE, assigned |-> 0,
   before |-> <<<<>>, <<>>, 0>>, after |-> <<<<>>, <<>>, 0>>]

NoApply == [called |-> FALSE, id |-> 0, before |-> <<<<>>, <<>>, 0, 0>>, after |-> <<<<>>, <<>>, 0, 0>>]

Install(st) ==
  /\ orders' = st.orders
  /\ positions' = st.positions
  /\ idGen' = st.idGen
  /\ esSequence' = st.esSequence
  /\ esLog' = st.esLog
  /\ esErr' = st.esErr
  /\ ssLastEventID' = st.ssLastEventID
  /\ ssTimestamp' = st.ssTimestamp
  /\ gateway' = st.gateway
  /\ crashed' = st.crashed
  /\ ingested' = st.ingested
  /\ esClosed' = st.esClosed
  /\ lastPublish' = st.lastPublish

OmsInit ==
  /\ orders = <<>>
  /\ positions = <<>>
  /\ idGen = GeneratorStart
  /\ esSequence = 0
  /\ esLog = <<>>
  /\ esErr = FALSE
  /\ ssLastEventID = 0
  /\ ssTimestamp = 0
  /\ gateway = <<>>
  /\ crashed = FALSE
  /\ ingested = <<>>
  /\ callerOrder = NoOrder
  /\ created = 0
  /\ traded = 0
  /\ esClosed = FALSE
  /\ lastPublish = NoPublish
  /\ snaps = <<>>
  /\ tmps = <<>>
  /\ lastApply = NoApply
  /\ lastSnap = "none"
  /\ taken = 0
  /\ faults = 0

\* OrderService.CreateOrder(o) for an order built by a client; riskOK is the
\* verdict of RiskService.Check
CreateOrder(user, side, qty, riskOK, io, step) ==
  LET t == now + step
      o == [NewOrder(0, user, side, Limit, MaxPrice, qty, 0) EXCEPT !.Status = ""]
  IN /\ ~crashed
     /\ created < MaxOrders
     /\ created' = created + 1
     /\ now' = t
     /\ IF riskOK
          THEN LET r == CreateOrderStep(OmsState, o, io, t)
               IN Install(r.st) /\ callerOrder' = r.order
          ELSE /\ callerOrder' = [o EXCEPT !.Status = Rejected]
               /\ UNCHANGED <<orders, positions, idGen, esSequence, esLog, esErr,
                              ssLastEventID, ssTimestamp, gateway, crashed, ingested,
                              esClosed, lastPublish>>
     /\ UNCHANGED <<traded, busSet, bookVars, snaps, tmps, lastApply, lastSnap, taken, shardVars, dispVars, pubVars>>

\* OrderService.OnTrade(t) for a fill the matching side reports for an order of
\* the book: user, symbol and side are the order's
OnTrade(id, qty, price, io, step) ==
  LET tm == now + step
      o  == orders[id]
      t  == [OrderID |-> id, Qty |-> qty, Price |-> price, UserID |-> o.UserID,
             Symbol |-> o.Symbol, Side |-> o.Side, IsMaker |-> FALSE]
  IN /\ ~crashed
     /\ traded < MaxTrades
     /\ now' = tm
     /\ traded' = traded + 1
     /\ Install(OnTradeStep(OmsState, t, io, tm))
     /\ UNCHANGED <<callerOrder, created, busSet, bookVars, snaps, tmps, lastApply, lastSnap,
                    taken, shardVars, dispVars, pubVars>>

OmsCreate ==
  \E user \in 1..MaxUsers, side \in Sides, qty \in 1..MaxOrderQty, riskOK \in BOOLEAN,
     step \in 0..MaxStep :
       CreateOrder(user, side, qty, riskOK, IoOk, step) /\ UNCHANGED faults

OmsTrade ==
  \E id \in DOMAIN orders, qty \in 1..MaxTradeQty, price \in 1..MaxTradePrice,
     step \in 0..MaxStep :
       OnTrade(id, qty, price, IoOk, step) /\ UNCHANGED faults

\* OnTrade with a trade whose quantity or price may be 0
OmsTradeZero ==
  \E id \in DOMAIN orders, qty \in 0..MaxTradeQty, price \in 0..MaxTradePrice,
     step \in 0..MaxStep :
       OnTrade(id, qty, price, IoOk, step) /\ UNCHANGED faults

\* ================================================================== Part III
\* ------------------------------------------------- snapshots and recovery
RetentionCount == 1
MaxSnapshots == 2
MaxFaults == 2

\* NewSystemState
NewSystemState == [orders |-> <<>>, positions |-> <<>>, ssLastEventID |-> 0, ssTimestamp |-> 0]

\* the SystemState part of the service state
SystemStateOf(st) ==
  [orders |-> st.orders, positions |-> st.positions,
   ssLastEventID |-> st.ssLastEventID, ssTimestamp |-> st.ssTimestamp]

\* the value of Checksum() when json.Marshal fails: the empty string
NoChecksum == [LastEventID |-> -1, Timestamp |-> -1, Orders |-> <<>>, Positions |-> <<>>]

\* json.Marshal accepts every float of the positions
Encodable(ps) ==
  \A k \in DOMAIN ps : IsFinite(ps[k].EntryPrice) /\ IsFinite(ps[k].Margin)

\* SystemState.Checksum: the hash over {last_event_id, timestamp, orders, positions}
Checksum(ss) ==
  IF Encodable(ss.positions)
    THEN [LastEventID |-> ss.ssLastEventID, Timestamp |-> ss.ssTimestamp,
          Orders |-> ss.orders, Positions |-> ss.positions]
    ELSE NoChecksum

\* SystemState.ToSnapshot
ToSnapshot(ss) ==
  [SequenceID |-> ss.ssLastEventID, Timestamp |-> ss.ssTimestamp, Orders |-> ss.orders,
   Positions |-> ss.positions, Checksum |-> Checksum(ss)]

\* the checksum recomputed from the contents of a snapshot
SnapshotChecksum(snap) ==
  Checksum([orders |-> snap.Orders, positions |-> snap.Positions,
            ssLastEventID |-> snap.SequenceID, ssTimestamp |-> snap.Timestamp])

\* the name snapshot_<timestamp>_<sequence>.snap.gz
FileName(snap) == <<snap.Timestamp, snap.SequenceID>>

\* the sequence id listSnapshots parses out of a file name
SequenceOf(f) == f[2]

\* the sets of files cleanupOldSnapshots may leave: the RetentionCount first
\* of a descending sort by sequence id (sort.Slice decides between equal ids)
Retained(files) ==
  IF Cardinality(files) <= RetentionCount
    THEN {files}
    ELSE {K \in SUBSET files :
            /\ Cardinality(K) = RetentionCount
            /\ \A f \in K, g \in files \ K : SequenceOf(f) >= SequenceOf(g)}

\* the files LoadLatest may open: the first of a descending sort by sequence id
LatestFiles(sn) == {f \in DOMAIN sn : \A g \in DOMAIN sn : SequenceOf(g) <= SequenceOf(f)}

\* the result of a recovery that returned an error: no state
Failed == [err |-> TRUE, st |-> NewSystemState]

\* EventStore.ReadFrom: every line must parse and verify, then the filter
ReadFrom(log, sequenceID) ==
  IF \E i \in DOMAIN log : ~log[i].json \/ ~Verify(log[i].ev)
    THEN [err |-> TRUE, events |-> <<>>]
    ELSE LET evs == [i \in DOMAIN log |-> log[i].ev]
         IN [err |-> FALSE, events |-> SelectSeq(evs, LAMBDA e : e.ID > sequenceID)]

\* the apply loop of a replay
RECURSIVE ApplyAll(_, _)
ApplyAll(ss, evs) ==
  IF evs = <<>> THEN [err |-> FALSE, st |-> ss]
  ELSE LET a == ApplyEvent(ss, Head(evs))
       IN IF a.err THEN Failed ELSE ApplyAll(a.st, Tail(evs))

\* ReplayEngine.replayFromBeginning
replayFromBeginning(log) ==
  LET r == ReadFrom(log, 0)
  IN IF r.err THEN Failed ELSE ApplyAll(NewSystemState, r.events)

\* ReplayEngine.restoreFromSnapshot
restoreFromSnapshot(snap) ==
  [orders |-> snap.Orders, positions |-> snap.Positions,
   ssLastEventID |-> snap.SequenceID, ssTimestamp |-> snap.Timestamp]

\* ReplayEngine.replayFromSnapshot
replayFromSnapshot(log, snap) ==
  LET r == ReadFrom(log, snap.SequenceID)
  IN IF r.err THEN Failed ELSE ApplyAll(restoreFromSnapshot(snap), r.events)

\* ReplayEngine.Replay when LoadLatest opens file f: a snapshot that cannot be
\* loaded sends the replay to the beginning of the log
ReplayWith(log, sn, f) ==
  IF sn[f].readable THEN replayFromSnapshot(log, sn[f].snap) ELSE replayFromBeginning(log)

\* ReplayEngine.Replay: the results it can return
Replay(log, sn) ==
  IF DOMAIN sn = {}
    THEN {replayFromBeginning(log)}
    ELSE {ReplayWith(log, sn, f) : f \in LatestFiles(sn)}

\* ReplayEngine.Verify: TRUE when it returns nil
VerifyAll(log, sn) ==
  /\ ~ReadFrom(log, 0).err
  /\ \A f \in DOMAIN sn : sn[f].readable

readLastSequenceFresh(log) == 0

\* readLastSequence: the largest id of the lines that parse
readLastSequence(log) ==
  LET ids == {log[i].ev.ID : i \in {j \in DOMAIN log : log[j].json}}
  IN IF ids = {} THEN 0 ELSE CHOOSE m \in ids : \A x \in ids : x <= m

writeTargetFinal == "final"

\* the path TakeSnapshot hands to writeSnapshot: tmpPath, filename + ".tmp"
writeTarget == "tmp"

\* a map without one key: os.Rename away from, or os.Remove of, a file
Removed(f, k) == [x \in DOMAIN f \ {k} |-> f[x]]

\* SnapshotManager.TakeSnapshot on the live state, with the cleanup it runs;
\* an Encode error returns from writeSnapshot and leaves what was written
TakeSnapshot ==
  LET snap  == ToSnapshot(SystemStateOf(OmsState))
      whole == [readable |-> TRUE, snap |-> snap]
      part  == [readable |-> FALSE, snap |-> snap]
      sn1   == Put(snaps, FileName(snap), whole)
  IN /\ taken < MaxSnapshots
     /\ taken' = taken + 1
     /\ IF Encodable(snap.Positions)
          THEN /\ \E K \in Retained(DOMAIN sn1) : snaps' = [f \in K |-> sn1[f]]
               /\ tmps' = Removed(tmps, FileName(snap))
               /\ lastSnap' = "written"
          ELSE /\ IF writeTarget = "tmp"
                    THEN tmps' = Put(tmps, FileName(snap), part) /\ snaps' = snaps
                    ELSE snaps' = Put(snaps, FileName(snap), part) /\ tmps' = tmps
               /\ lastSnap' = "failed"
     /\ UNCHANGED <<now, bookVars, omsVars, esClosed, lastPublish, lastApply, faults,
                    shardVars, dispVars, pubVars>>

\* the steps at which TakeSnapshot can fail or the process can stop
SnapStages == {"write", "written", "rename", "cleanup"}

\* TakeSnapshot that does not complete.  "write": writeSnapshot fails, or the
\* process stops inside it, and what it wrote so far stays; "written": the
\* process stops between writeSnapshot and os.Rename; "rename": os.Rename fails
\* and the temporary file is removed; "cleanup": the process stops after the
\* rename, cleanupOldSnapshots having removed none, some or all of its files.
TakeSnapshotFault ==
  LET snap  == ToSnapshot(SystemStateOf(OmsState))
      name  == FileName(snap)
      whole == [readable |-> TRUE, snap |-> snap]
      part  == [readable |-> FALSE, snap |-> snap]
      sn1   == Put(snaps, name, whole)
  IN /\ taken < MaxSnapshots
     /\ faults < MaxFaults
     /\ ~crashed
     /\ Encodable(snap.Positions)
     /\ taken' = taken + 1
     /\ faults' = faults + 1
     /\ lastSnap' = "failed"
     /\ \E stage \in SnapStages :
          CASE stage = "write" ->
                 /\ IF writeTarget = "tmp"
                      THEN tmps' = Put(tmps, name, part) /\ snaps' = snaps
                      ELSE snaps' = Put(snaps, name, part) /\ tmps' = tmps
                 /\ crashed' \in BOOLEAN
            [] stage = "written" ->
                 /\ IF writeTarget = "tmp"
                      THEN tmps' = Put(tmps, name, whole) /\ snaps' = snaps
                      ELSE snaps' = sn1 /\ tmps' = tmps
                 /\ crashed' = TRUE
            [] stage = "rename" ->
                 /\ tmps' = Removed(tmps, name)
                 /\ snaps' = IF writeTarget = "tmp" THEN snaps ELSE sn1
                 /\ crashed' = FALSE
            [] stage = "cleanup" ->
                 /\ \E K \in Retained(DOMAIN sn1), S \in SUBSET (DOMAIN sn1) :
                      /\ K \subseteq S
                      /\ snaps' = [f \in S |-> sn1[f]]
                 /\ tmps' = Removed(tmps, name)
                 /\ crashed' = TRUE
     /\ UNCHANGED <<now, bookVars, orders, positions, idGen, esSequence, esLog, esErr,
                    ssLastEventID, ssTimestamp, gateway, ingested, callerOrder, created,
                    traded, busSet, esClosed, lastPublish, lastApply, shardVars, dispVars, pubVars>>

\* the process stops and main starts again: NewEventStore reopens the log,
\* Replay rebuilds the state (main panics on its error), idgen.New
Restart ==
  /\ faults < MaxFaults
  /\ faults' = faults + 1
  /\ \E r \in Replay(esLog, snaps) :
       /\ orders' = r.st.orders
       /\ positions' = r.st.positions
       /\ ssLastEventID' = r.st.ssLastEventID
       /\ ssTimestamp' = r.st.ssTimestamp
       /\ crashed' = r.err
  /\ esSequence' = readLastSequence(esLog)
  /\ esErr' = FALSE
  /\ esClosed' = FALSE
  /\ idGen' = GeneratorStart
  /\ UNCHANGED <<now, bookVars, esLog, gateway, ingested, callerOrder, created, traded,
                 busSet, snaps, tmps, lastPublish, lastApply, lastSnap, taken, shardVars, dispVars, pubVars>>

\* EventStore.Close
CloseStore ==
  /\ faults < MaxFaults
  /\ ~esClosed
  /\ faults' = faults + 1
  /\ esClosed' = TRUE
  /\ UNCHANGED <<now, bookVars, omsVars, snaps, tmps, lastPublish, lastApply, lastSnap, taken,
                 shardVars, dispVars, pubVars>>

\* SystemState.ApplyEvent on the live state for an event read back from the log
Redeliver ==
  /\ faults < MaxFaults
  /\ ~crashed
  /\ \E i \in DOMAIN esLog :
       /\ esLog[i].json
       /\ LET ss == SystemStateOf(OmsState)
              a  == ApplyEvent(ss, esLog[i].ev)
          IN /\ orders' = a.st.orders
             /\ positions' = a.st.positions
             /\ ssLastEventID' = a.st.ssLastEventID
             /\ ssTimestamp' = a.st.ssTimestamp
             /\ lastApply' = [called |-> TRUE, id |-> esLog[i].ev.ID,
                              before |-> <<ss.orders, ss.positions, ss.ssLastEventID, ss.ssTimestamp>>,
                              after |-> <<a.st.orders, a.st.positions, a.st.ssLastEventID,
                                          a.st.ssTimestamp>>]
  /\ faults' = faults + 1
  /\ UNCHANGED <<now, bookVars, idGen, esSequence, esLog, esErr, gateway, crashed, ingested,
                 callerOrder, created, traded, busSet, esClosed, snaps, tmps, lastPublish,
                 lastSnap, taken, shardVars, dispVars, pubVars>>

\* the disk changes a stored event: its timestamp differs, its checksum is stale
CorruptEvent ==
  /\ faults < MaxFaults
  /\ \E i \in DOMAIN esLog :
       /\ esLog[i].json
       /\ Verify(esLog[i].ev)
       /\ esLog' = [esLog EXCEPT ![i].ev.Timestamp = @ + TicksPerSecond]
  /\ faults' = faults + 1
  /\ UNCHANGED <<now, bookVars, orders, positions, idGen, esSequence, esErr, ssLastEventID,
                 ssTimestamp, gateway, crashed, ingested, callerOrder, created, traded,
                 busSet, esClosed, snaps, tmps, lastPublish, lastApply, lastSnap, taken,
                 shardVars, dispVars, pubVars>>

\* the disk changes a snapshot file: either it no longer decodes, or it decodes
\* to contents (here the timestamp) that differ from what its checksum was taken of
CorruptSnapshot ==
  /\ faults < MaxFaults
  /\ \E f \in DOMAIN snaps :
       /\ snaps[f].readable
       /\ snaps[f].snap.Checksum = SnapshotChecksum(snaps[f].snap)
       /\ \/ snaps' = [snaps EXCEPT ![f].readable = FALSE]
          \/ snaps' = [snaps EXCEPT ![f].snap.Timestamp = @ + 1]
  /\ faults' = faults + 1
  /\ UNCHANGED <<now, bookVars, omsVars, esClosed, tmps, lastPublish, lastApply, lastSnap, taken,
                 shardVars, dispVars, pubVars>>

\* an I/O failure of the log's disk is one of the MaxFaults faults of a run
Disk(io) ==
  /\ io # IoOk => faults < MaxFaults
  /\ faults' = IF io = IoOk THEN faults ELSE faults + 1

SnapCreate ==
  \E side \in Sides, io \in IoModes :
    CreateOrder(1, side, 1, TRUE, io, 1) /\ Disk(io)

SnapTrade ==
  \E id \in DOMAIN orders, io \in IoModes :
    OnTrade(id, 1, 1, io, 1) /\ Disk(io)

\* =================================================================== Part IV
\* ------------------------------------------------- ShardedMatchingEngine
MaxShards == 3
MaxReqs == 3
MaxQueue == 2
MaxStart == 1
InChCap == 1024

Symbols == {"BTCUSDT", "ETHUSDT"}

\* []byte(symbol)
Bytes(symbol) ==
  CASE symbol = "BTCUSDT" -> <<66, 84, 67, 85, 83, 68, 84>>
    [] symbol = "ETHUSDT" -> <<69, 84, 72, 85, 83, 68, 84>>

\* a XOR b on the n low bits
RECURSIVE XorBits(_, _, _)
XorBits(a, b, n) ==
  IF n = 0 THEN 0
  ELSE (((a % 2) + (b % 2)) % 2) + 2 * XorBits(a \div 2, b \div 2, n - 1)

\* one round of hash/fnv's 32-bit FNV-1a on the uint32 hi * 2^16 + lo:
\* hash ^= b; hash *= 16777619 (= 256 * 2^16 + 403), modulo 2^32
FnvRound(h, b) ==
  LET lo1 == (h.lo - (h.lo % 256)) + XorBits(h.lo % 256, b, 8)
      p   == lo1 * 403
  IN [hi |-> ((p \div 65536) + h.hi * 403 + lo1 * 256) % 65536, lo |-> p % 65536]

\* fnv.New32a, Write, Sum32: from the offset basis 2166136261 (= 33052 * 2^16 + 40389)
RECURSIVE FnvFrom(_, _)
FnvFrom(h, bytes) ==
  IF bytes = <<>> THEN h ELSE FnvFrom(FnvRound(h, Head(bytes)), Tail(bytes))

Sum32(symbol) == FnvFrom([hi |-> 33052, lo |-> 40389], Bytes(symbol))

\* (hi * 2^16 + lo) mod n
ModN(h, n) == ((h.hi % n) * (65536 % n) + h.lo) % n

\* int(h.Sum32()) % len(e.shards): with a 32-bit int a sum of 2^31 or more is
\* the negative number sum - 2^32, and Go's % takes the sign of the dividend
Index(symbol, n, bits) ==
  LET h == Sum32(symbol)
  IN IF bits = 32 /\ h.hi >= 32768
       THEN -(((((65536 % n) * (65536 % n)) % n) + n - ModN(h, n)) % n)
       ELSE ModN(h, n)

getBookShared(books, symbol) ==
  IF DOMAIN books = {} THEN [bids |-> <<>>, asks |-> <<>>]
  ELSE books[CHOOSE x \in DOMAIN books : TRUE]

\* engineShard.getBook
getBook(books, symbol) ==
  IF symbol \in DOMAIN books THEN books[symbol] ELSE [bids |-> <<>>, asks |-> <<>>]

\* NewShardedMatchingEngine(n) in a build whose int has the given width
ShardInit(bits, n) ==
  /\ intBits = bits
  /\ shardNum = n
  /\ inCh = [i \in 0..(n - 1) |-> <<>>]
  /\ shardBooks = [i \in 0..(n - 1) |-> <<>>]
  /\ cur = [i \in 0..(n - 1) |-> 0]
  /\ entered = [i \in 0..(n - 1) |-> <<>>]
  /\ matched = [i \in 0..(n - 1) |-> <<>>]
  /\ reqs = <<>>
  /\ panicked = FALSE
  /\ closed = FALSE
  /\ exited = [i \in 0..(n - 1) |-> FALSE]
  /\ blocked = [i \in 0..(n - 1) |-> <<>>]

\* the buffer of inCh and of Worker.ch as far as the model fills it
QueueCap == min(InChCap, MaxQueue)

\* time.Time.UnixMilli()
UnixMilli(t) == t * (1000 \div TicksPerSecond)

\* genTradeID: a TradeIDGen made for the call, so lastTs differs from the clock
\* and the sequence is 0; (ts << 22) | (nodeID << 12) | sequence as its fields
genTradeID(t) == [ts |-> UnixMilli(t), node |-> 1, seq |-> 0]

\* the TradeID field of the records Match builds at clock t
Stamp(trades, t) ==
  [j \in DOMAIN trades |->
     [TradeID |-> genTradeID(t), OrderID |-> trades[j].OrderID,
      UserID |-> trades[j].UserID, Symbol |-> trades[j].Symbol, Side |-> trades[j].Side,
      Price |-> trades[j].Price, Qty |-> trades[j].Qty, IsMaker |-> trades[j].IsMaker]]

HandoffNone(waiting) == <<>>

\* a receive from a full channel hands the freed slot to the sender that has
\* waited longest
Handoff(waiting) == IF waiting = <<>> THEN <<>> ELSE <<Head(waiting)>>

\* ShardedMatchingEngine.Submit up to the send on inCh: pickShard indexes the
\* shard slice (a panic when the index is out of range), submit sends the
\* request, and the send waits while the buffer is full
SubmitCall(symbol, side, qty) ==
  LET k     == Len(reqs) + 1
      t     == now + 1
      order == [NewOrder(k, 100 + k, side, Limit, 1, qty, t) EXCEPT !.Symbol = symbol]
      idx   == Index(symbol, shardNum, intBits)
      req   == [order |-> order, shard |-> idx, at |-> "queued", trades |-> <<>>,
                waited |-> FALSE]
  IN /\ ~panicked
     /\ k <= MaxReqs
     /\ now' = t
     /\ IF idx \notin 0..(shardNum - 1)
          THEN /\ panicked' = TRUE
               /\ reqs' = Append(reqs, [req EXCEPT !.at = "panicked"])
               /\ UNCHANGED <<inCh, entered, blocked>>
          ELSE IF Len(inCh[idx]) < QueueCap
            THEN /\ inCh' = [inCh EXCEPT ![idx] = Append(@, k)]
                 /\ entered' = [entered EXCEPT ![idx] = Append(@, k)]
                 /\ reqs' = Append(reqs, req)
                 /\ UNCHANGED <<panicked, blocked>>
            ELSE /\ blocked' = [blocked EXCEPT ![idx] = Append(@, k)]
                 /\ reqs' = Append(reqs, [req EXCEPT !.at = "blocked", !.waited = TRUE])
                 /\ UNCHANGED <<panicked, inCh, entered>>
     /\ UNCHANGED <<intBits, shardNum, shardBooks, cur, matched, closed, exited, bookVars,
                    omsVars, snapVars, dispVars, pubVars>>

\* engineShard.loop: case req := <-s.inCh; the receive hands the freed slot
\* to the sender that has waited longest
ShardReceive(i) ==
  LET k     == Head(inCh[i])
      moved == Handoff(blocked[i])
  IN /\ ~panicked
     /\ ~exited[i]
     /\ cur[i] = 0
     /\ inCh[i] # <<>>
     /\ cur' = [cur EXCEPT ![i] = k]
     /\ inCh' = [inCh EXCEPT ![i] = Tail(@) \o moved]
     /\ entered' = [entered EXCEPT ![i] = @ \o moved]
     /\ blocked' = [blocked EXCEPT ![i] = IF @ = <<>> THEN @ ELSE Tail(@)]
     /\ reqs' = [j \in DOMAIN reqs |->
                   IF j = k THEN [reqs[j] EXCEPT !.at = "matching"]
                   ELSE IF <<j>> = moved THEN [reqs[j] EXCEPT !.at = "queued"]
                   ELSE reqs[j]]
     /\ UNCHANGED <<now, intBits, shardNum, shardBooks, matched, panicked, closed, exited,
                    bookVars, omsVars, snapVars, dispVars, pubVars>>

\* engineShard.loop: getBook, book.Match, req.resp <- trades
ShardMatch(i) ==
  /\ ~panicked
  /\ cur[i] # 0
  /\ LET k     == cur[i]
         order == reqs[k].order
         book  == getBook(shardBooks[i], order.Symbol)
         m     == Match(book.bids, book.asks, order)
     IN /\ shardBooks' = [shardBooks EXCEPT
                            ![i] = Put(@, order.Symbol, [bids |-> m.bids, asks |-> m.asks])]
        /\ reqs' = [reqs EXCEPT ![k].at = "answered", ![k].trades = Stamp(m.trades, now)]
        /\ matched' = [matched EXCEPT ![i] = Append(@, k)]
  /\ cur' = [cur EXCEPT ![i] = 0]
  /\ UNCHANGED <<now, intBits, shardNum, inCh, entered, panicked, closed, exited, blocked,
                 bookVars, omsVars, snapVars, dispVars, pubVars>>

\* engineShard.loop: case <-s.closed: return
ShardExit(i) ==
  /\ ~panicked
  /\ closed
  /\ ~exited[i]
  /\ cur[i] = 0
  /\ exited' = [exited EXCEPT ![i] = TRUE]
  /\ UNCHANGED <<now, intBits, shardNum, inCh, shardBooks, cur, reqs, entered, matched,
                 panicked, closed, blocked, bookVars, omsVars, snapVars, dispVars, pubVars>>

\* ShardedMatchingEngine.Close
Close ==
  /\ ~panicked
  /\ ~closed
  /\ closed' = TRUE
  /\ UNCHANGED <<now, intBits, shardNum, inCh, shardBooks, cur, reqs, entered, matched,
                 panicked, exited, blocked, bookVars, omsVars, snapVars, dispVars, pubVars>>

\* engineShard.submit: return <-resp
SubmitReturn(k) ==
  /\ ~panicked
  /\ reqs[k].at = "answered"
  /\ reqs' = [reqs EXCEPT ![k].at = "returned"]
  /\ UNCHANGED <<now, intBits, shardNum, inCh, shardBooks, cur, entered, matched, panicked,
                 closed, exited, blocked, bookVars, omsVars, snapVars, dispVars, pubVars>>

ShardSubmit ==
  \E symbol \in Symbols, side \in Sides, qty \in 1..MaxQty : SubmitCall(symbol, side, qty)

ShardLoop == \E i \in 0..(shardNum - 1) : ShardReceive(i) \/ ShardMatch(i)

ShardAnswer == \E k \in DOMAIN reqs : SubmitReturn(k)

ShardExits == \E i \in 0..(shardNum - 1) : ShardExit(i)

\* ==================================================================== Part V
\* ------------------------------------------------------ Dispatcher, Worker
MaxWorkers == 2
MaxTasks == 3
MaxKeys == 2
WorkerChCap == 1024

\* the order ids the tasks are keyed with: ids handed out by Generator.Next
Keys == (GeneratorStart + 1)..(GeneratorStart + MaxKeys)

WorkerCap == min(WorkerChCap, MaxQueue)

NoCheck ==
  [p |-> [UserID |-> 0, Symbol |-> "", Qty |-> 0, EntryPrice |-> RInt(0),
          Leverage |-> 0, Margin |-> RInt(0)],
   mark |-> 0, done |-> FALSE, result |-> FALSE]

\* NewDispatcher(n); no position yet, no Check call made
DispInit(n) ==
  /\ dispNum = n
  /\ wCh = [i \in 0..(n - 1) |-> <<>>]
  /\ wBlocked = [i \in 0..(n - 1) |-> <<>>]
  /\ wRan = [i \in 0..(n - 1) |-> <<>>]
  /\ wSeen = [i \in 0..(n - 1) |-> 0]
  /\ tasks = <<>>
  /\ dQty = 0
  /\ chk = NoCheck

LaneZero(ordID, n) == 0

\* idx := key % int64(len(d.workers)), for the keys of Keys (all positive)
Lane(ordID, n) == ordID % n

\* the task a worker is running (0: none)
Running(i) ==
  IF \E k \in DOMAIN tasks : tasks[k].worker = i /\ tasks[k].at \in {"get", "set"}
    THEN CHOOSE k \in DOMAIN tasks : tasks[k].worker = i /\ tasks[k].at \in {"get", "set"}
    ELSE 0

\* Dispatcher.Dispatch(key, fn) with Worker.Submit, for fn = the OnTrade of a
\* BUY fill of quantity qty of order key; the send waits while ch is full
Dispatch(ordID, qty) ==
  LET k    == Len(tasks) + 1
      idx  == Lane(ordID, dispNum)
      task == [key |-> ordID, qty |-> qty, worker |-> idx, at |-> "queued",
               waited |-> FALSE]
  IN /\ k <= MaxTasks
     /\ IF Len(wCh[idx]) < WorkerCap
          THEN /\ wCh' = [wCh EXCEPT ![idx] = Append(@, k)]
               /\ tasks' = Append(tasks, task)
               /\ UNCHANGED wBlocked
          ELSE /\ wBlocked' = [wBlocked EXCEPT ![idx] = Append(@, k)]
               /\ tasks' = Append(tasks, [task EXCEPT !.at = "blocked", !.waited = TRUE])
               /\ UNCHANGED wCh
     /\ UNCHANGED <<now, dispNum, wRan, wSeen, dQty, chk, bookVars, omsVars, snapVars,
                    shardVars, pubVars>>

\* the worker goroutine: for fn := range w.ch, up to the call of fn
WorkerTake(i) ==
  LET k     == Head(wCh[i])
      moved == Handoff(wBlocked[i])
  IN /\ Running(i) = 0
     /\ wCh[i] # <<>>
     /\ wCh' = [wCh EXCEPT ![i] = Tail(@) \o moved]
     /\ wBlocked' = [wBlocked EXCEPT ![i] = IF @ = <<>> THEN @ ELSE Tail(@)]
     /\ wRan' = [wRan EXCEPT ![i] = Append(@, k)]
     /\ tasks' = [j \in DOMAIN tasks |->
                    IF j = k THEN [tasks[j] EXCEPT !.at = "get"]
                    ELSE IF <<j>> = moved THEN [tasks[j] EXCEPT !.at = "queued"]
                    ELSE tasks[j]]
     /\ UNCHANGED <<now, dispNum, wSeen, dQty, chk, bookVars, omsVars, snapVars, shardVars, pubVars>>

\* fn, first half: PositionService.OnTrade reads the position (book.Get and
\* the loads of p.Qty)
WorkerGet(i) ==
  /\ Running(i) # 0
  /\ tasks[Running(i)].at = "get"
  /\ wSeen' = [wSeen EXCEPT ![i] = dQty]
  /\ tasks' = [tasks EXCEPT ![Running(i)].at = "set"]
  /\ UNCHANGED <<now, dispNum, wCh, wBlocked, wRan, dQty, chk, bookVars, omsVars, snapVars,
                 shardVars, pubVars>>

\* fn, second half: PositionService.OnTrade stores the quantity it computed
\* (p.Qty += qty, or the new position saved by the event); fn returns
WorkerSet(i) ==
  /\ Running(i) # 0
  /\ tasks[Running(i)].at = "set"
  /\ dQty' = wSeen[i] + tasks[Running(i)].qty
  /\ tasks' = [tasks EXCEPT ![Running(i)].at = "done"]
  /\ UNCHANGED <<now, dispNum, wCh, wBlocked, wRan, wSeen, chk, bookVars, omsVars, snapVars,
                 shardVars, pubVars>>

DispatchTask == \E ordID \in Keys, qty \in 1..MaxTradeQty : Dispatch(ordID, qty)

WorkerLoop == \E i \in 0..(dispNum - 1) : WorkerTake(i) \/ WorkerGet(i) \/ WorkerSet(i)

\* =================================================================== Part VI
\* ------------------------------------------- LiquidationService.Check alone
CheckQtys == {-2, -1, 1, 2}
CheckEntries == {200, 40000}
CheckMargins == {1, 8000}
CheckMarks == {199, 200, 201, 35000, 38000}

CheckInputs ==
  {[p |-> [UserID |-> 1, Symbol |-> Symbol0, Qty |-> q, EntryPrice |-> RInt(e),
           Leverage |-> DefaultLeverage, Margin |-> RInt(m)],
    mark |-> k, done |-> FALSE, result |-> FALSE] :
     q \in CheckQtys, e \in CheckEntries, m \in CheckMargins, k \in CheckMarks}

\* l.Check(p, markPrice)
CheckCall ==
  /\ ~chk.done
  /\ chk' = [chk EXCEPT !.done = TRUE, !.result = Check(chk.p, chk.mark)]
  /\ UNCHANGED <<now, dispNum, wCh, wBlocked, wRan, wSeen, tasks, dQty, bookVars, omsVars,
                 snapVars, shardVars, pubVars>>

\* ================================================================== Part VII
\* ------------------- goroutines in EventBus.Publish and in ToSnapshot
MaxPublishers == 2
MaxEvents == 3

\* the goroutines that call OrderService.CreateOrder
Publishers == 1..MaxPublishers

\* the Snapshot before any of its fields is read
NoSnapshot ==
  [SequenceID |-> 0, Timestamp |-> 0, Orders |-> <<>>, Positions |-> <<>>,
   Checksum |-> NoChecksum]

PubInit ==
  /\ pubMu = 0
  /\ pubPc = [g \in Publishers |-> "idle"]
  /\ pubEv = [g \in Publishers |-> NoData]
  /\ applied = <<>>
  /\ hist = <<NewSystemState>>
  /\ snapPc = "idle"
  /\ snapBuf = NoSnapshot

TryLockFree(mu) == TRUE

\* b.mu.Lock() returns only when no goroutine holds the mutex
TryLock(mu) == mu = 0

\* CreateOrder up to the call of Publish: the id, the order, the event
PubStart(g) ==
  /\ pubPc[g] = "idle"
  /\ idGen < GeneratorStart + MaxEvents
  /\ \E step \in 0..MaxStep :
       LET t  == now + step
           id == idGen + 1
           o  == [NewOrder(id, g, Buy, Limit, MaxPrice, 1, t) EXCEPT !.Status = Submitted]
       IN /\ now' = t
          /\ idGen' = id
          /\ pubEv' = [pubEv EXCEPT ![g] = NewEvent(0, EventOrderCreated, [Order |-> o], t)]
  /\ pubPc' = [pubPc EXCEPT ![g] = "made"]
  /\ UNCHANGED <<bookVars, orders, positions, esSequence, esLog, esErr, ssLastEventID,
                 ssTimestamp, gateway, crashed, ingested, callerOrder, created, traded,
                 busSet, snapVars, shardVars, dispVars, pubMu, applied, hist, snapPc, snapBuf>>

\* Publish: b.mu.Lock()
PubLock(g) ==
  /\ pubPc[g] = "made"
  /\ TryLock(pubMu)
  /\ pubMu' = g
  /\ pubPc' = [pubPc EXCEPT ![g] = "locked"]
  /\ UNCHANGED <<now, bookVars, omsVars, snapVars, shardVars, dispVars, pubEv, applied,
                 hist, snapPc, snapBuf>>

\* ApplyEvent: LastEventID and Timestamp are assigned first
PubApplyHead(g) ==
  LET a == ApplyEvent(OmsState, pubEv[g])
  IN /\ pubPc[g] = "locked"
     /\ ssLastEventID' = a.st.ssLastEventID
     /\ ssTimestamp' = a.st.ssTimestamp
     /\ pubPc' = [pubPc EXCEPT ![g] = "head"]
     /\ UNCHANGED <<now, bookVars, orders, positions, idGen, esSequence, esLog, esErr,
                    gateway, crashed, ingested, callerOrder, created, traded, busSet,
                    snapVars, shardVars, dispVars, pubMu, pubEv, applied, hist, snapPc,
                    snapBuf>>

\* ApplyEvent: applyOrderCreated adds the order to the book
PubApplyBody(g) ==
  LET a == ApplyEvent(OmsState, pubEv[g])
  IN /\ pubPc[g] = "head"
     /\ orders' = a.st.orders
     /\ positions' = a.st.positions
     /\ applied' = Append(applied, pubEv[g].Data.Order.ID)
     /\ hist' = Append(hist, [orders |-> a.st.orders, positions |-> a.st.positions,
                              ssLastEventID |-> ssLastEventID, ssTimestamp |-> ssTimestamp])
     /\ pubPc' = [pubPc EXCEPT ![g] = "body"]
     /\ UNCHANGED <<now, bookVars, idGen, esSequence, esLog, esErr, ssLastEventID,
                    ssTimestamp, gateway, crashed, ingested, callerOrder, created, traded,
                    busSet, snapVars, shardVars, dispVars, pubMu, pubEv, snapPc, snapBuf>>

\* Publish: store.Append, then the deferred b.mu.Unlock()
PubAppend(g) ==
  LET r == StoreAppend(OmsState, pubEv[g], IoOk)
  IN /\ pubPc[g] = "body"
     /\ esSequence' = r.st.esSequence
     /\ esLog' = r.st.esLog
     /\ esErr' = r.st.esErr
     /\ pubMu' = 0
     /\ pubPc' = [pubPc EXCEPT ![g] = "idle"]
     /\ UNCHANGED <<now, bookVars, orders, positions, idGen, ssLastEventID, ssTimestamp,
                    gateway, crashed, ingested, callerOrder, created, traded, busSet,
                    snapVars, shardVars, dispVars, pubEv, applied, hist, snapPc, snapBuf>>

\* ToSnapshot, called by TakeSnapshot from the periodic goroutine: Checksum()
\* reads the books and the two fields of the state
SnapChecksum ==
  /\ snapPc \in {"idle", "done"}
  /\ taken < MaxSnapshots
  /\ taken' = taken + 1
  /\ snapBuf' = [NoSnapshot EXCEPT !.Checksum = Checksum(SystemStateOf(OmsState))]
  /\ snapPc' = "sum"
  /\ UNCHANGED <<now, bookVars, omsVars, esClosed, snaps, tmps, lastPublish, lastApply,
                 lastSnap, faults, shardVars, dispVars, pubMu, pubPc, pubEv, applied, hist>>

\* ToSnapshot: SequenceID: ss.LastEventID, Timestamp: ss.Timestamp
SnapHead ==
  /\ snapPc = "sum"
  /\ snapBuf' = [snapBuf EXCEPT !.SequenceID = ssLastEventID, !.Timestamp = ssTimestamp]
  /\ snapPc' = "head"
  /\ UNCHANGED <<now, bookVars, omsVars, snapVars, shardVars, dispVars, pubMu, pubPc,
                 pubEv, applied, hist>>

\* ToSnapshot: Orders: ss.OrderBook.GetAll(), Positions: ss.PositionBook.GetAll()
SnapBooks ==
  /\ snapPc = "head"
  /\ snapBuf' = [snapBuf EXCEPT !.Orders = orders, !.Positions = positions]
  /\ snapPc' = "done"
  /\ UNCHANGED <<now, bookVars, omsVars, snapVars, shardVars, dispVars, pubMu, pubPc,
                 pubEv, applied, hist>>

\* ------------------------------------------------------------ specifications
Init ==
  /\ now = 0
  /\ busSet = TRUE
  /\ BookInit
  /\ OmsInit
  /\ PubInit
  /\ ShardInit(64, MaxShards)
  /\ DispInit(MaxWorkers)

\* the services are constructed with an EventBus or, as in the tests, without
InitOms ==
  /\ now = 0
  /\ busSet \in BOOLEAN
  /\ BookInit
  /\ OmsInit
  /\ PubInit
  /\ ShardInit(64, MaxShards)
  /\ DispInit(MaxWorkers)

\* the engine of a 32-bit or a 64-bit build, with 2..MaxShards shards
InitShardAt(starts) ==
  /\ now \in starts
  /\ busSet = TRUE
  /\ BookInit
  /\ OmsInit
  /\ PubInit
  /\ \E bits \in {32, 64}, n \in 2..MaxShards : ShardInit(bits, n)
  /\ DispInit(MaxWorkers)

InitShard == InitShardAt(0..MaxStart)

\* the same engine, the process started at clock 0
InitQueue == InitShardAt({0})

\* a dispatcher of 1..MaxWorkers workers
InitDisp ==
  /\ now = 0
  /\ busSet = TRUE
  /\ BookInit
  /\ OmsInit
  /\ PubInit
  /\ ShardInit(64, MaxShards)
  /\ \E n \in 1..MaxWorkers : DispInit(n)

\* a position and a mark price handed to LiquidationService.Check
InitCheck ==
  /\ now = 0
  /\ busSet = TRUE
  /\ BookInit
  /\ OmsInit
  /\ PubInit
  /\ ShardInit(64, MaxShards)
  /\ dispNum = MaxWorkers
  /\ wCh = [i \in 0..(MaxWorkers - 1) |-> <<>>]
  /\ wBlocked = [i \in 0..(MaxWorkers - 1) |-> <<>>]
  /\ wRan = [i \in 0..(MaxWorkers - 1) |-> <<>>]
  /\ wSeen = [i \in 0..(MaxWorkers - 1) |-> 0]
  /\ tasks = <<>>
  /\ dQty = 0
  /\ chk \in CheckInputs

BookNext == Submit /\ UNCHANGED <<omsVars, snapVars, shardVars, dispVars, pubVars>>

Next == BookNext

Spec == Init /\ [][Next]_vars

NextFifo == SubmitLimit /\ UNCHANGED <<omsVars, snapVars, shardVars, dispVars, pubVars>>

SpecFifo == Init /\ [][NextFifo]_vars

NextOms == OmsCreate \/ OmsTrade

\* the services under fills of any quantity and price from 0 up
NextOmsZero == OmsCreate \/ OmsTradeZero

SpecOmsZero == InitOms /\ [][NextOmsZero]_vars

SpecOms == InitOms /\ [][NextOms]_vars

NextSnap ==
  \/ SnapCreate
  \/ SnapTrade
  \/ TakeSnapshot
  \/ TakeSnapshotFault
  \/ Restart
  \/ CloseStore
  \/ Redeliver
  \/ CorruptEvent
  \/ CorruptSnapshot

SpecSnap == Init /\ [][NextSnap]_vars

NextShard == ShardSubmit \/ ShardLoop \/ ShardAnswer

SpecShard == InitShard /\ [][NextShard]_vars

\* Submit calls with orders of quantity 1
SubmitOne == \E symbol \in Symbols, side \in Sides : SubmitCall(symbol, side, 1)

NextClose == SubmitOne \/ ShardLoop \/ ShardAnswer \/ Close \/ ShardExits

\* the goroutines of the engine are scheduled fairly
SpecClose ==
  InitQueue /\ [][NextClose]_vars /\ WF_vars(ShardLoop)
    /\ WF_vars(ShardAnswer) /\ WF_vars(ShardExits)

NextDisp == DispatchTask \/ WorkerLoop

\* an engine and a dispatcher in one process, MaxReqs calls between them
QueueSubmit == Len(reqs) + Len(tasks) < MaxReqs /\ SubmitOne

QueueDispatch ==
  /\ Len(reqs) + Len(tasks) < MaxReqs
  /\ \E ordID \in Keys : Dispatch(ordID, 1)

NextQueue == QueueSubmit \/ QueueDispatch \/ ShardLoop \/ ShardAnswer \/ WorkerLoop

\* neither is closed; the goroutines of the shards and workers are scheduled
\* fairly
SpecQueue ==
  InitQueue /\ [][NextQueue]_vars /\ WF_vars(ShardLoop)
    /\ WF_vars(ShardAnswer) /\ WF_vars(WorkerLoop)

SpecDisp == InitDisp /\ [][NextDisp]_vars

NextCheck == CheckCall

\* goroutines creating orders through the EventBus while the periodic
\* snapshot goroutine runs
NextBus ==
  \/ \E g \in Publishers :
       PubStart(g) \/ PubLock(g) \/ PubApplyHead(g) \/ PubApplyBody(g) \/ PubAppend(g)
  \/ SnapChecksum
  \/ SnapHead
  \/ SnapBooks

SpecBus == Init /\ [][NextBus]_vars

SpecCheck == InitCheck /\ [][NextCheck]_vars

\* ------------------------------------------- reading the last Match's result
SeqSet(s) == {s[i] : i \in DOMAIN s}

\* the opposing queue of the last taker, before and after its Match
PrevOpp == IF lastOrder.Side = Buy THEN prevAsks ELSE prevBids

PostOpp == IF lastOrder.Side = Buy THEN asks ELSE bids

PrevOwn == IF lastOrder.Side = Buy THEN prevBids ELSE prevAsks

PostOwn == IF lastOrder.Side = Buy THEN bids ELSE asks

NPairs == Len(lastTrades) \div 2

RECURSIVE SumPairs(_)
SumPairs(S) ==
  IF S = {} THEN 0
  ELSE LET j == CHOOSE x \in S : TRUE IN lastTrades[2 * j].Qty + SumPairs(S \ {j})

\* quantity the maker with this id was filled in the pairs before pair k
MakerFilledBefore(id, k) ==
  SumPairs({j \in 1..(k - 1) : j <= NPairs /\ lastTrades[2 * j].OrderID = id})

\* quantity the taker was filled in the pairs before pair k
TakerFilledBefore(k) == SumPairs({j \in 1..(k - 1) : j <= NPairs})

\* p is a strictly better resting price than q on the side opposing the last taker
Better(p, q) == IF lastOrder.Side = Buy THEN p < q ELSE p > q

\* the last taker's limit does not reach the resting price p
OutOfLimit(p) == IF lastOrder.Side = Buy THEN lastOrder.Price < p ELSE lastOrder.Price > p

Resting == SeqSet(bids) \cup SeqSet(asks)

\* C1: every match of Match emits exactly two trade records, the taker's first
\* (is_maker false, the taker's order id) and the maker's second (is_maker true,
\* the maker's order id), both with quantity min(taker remaining, maker
\* remaining) and both at the resting maker's price; the makers lose exactly
\* the quantities the records state.
C1_TwoRecordsPerMatch ==
  submitted > 0 =>
    /\ Len(lastTrades) = 2 * NPairs
    /\ \A k \in 1..NPairs :
         LET t == lastTrades[2 * k - 1]
             m == lastTrades[2 * k]
         IN /\ ~t.IsMaker
            /\ t.OrderID = lastOrder.ID
            /\ t.Side = lastOrder.Side
            /\ m.IsMaker
            /\ t.Qty = m.Qty
            /\ \E r \in SeqSet(PrevOpp) :
                 /\ r.ID = m.OrderID
                 /\ m.Side = r.Side
                 /\ m.Price = r.Price
                 /\ t.Price = r.Price
                 /\ t.Qty = min(lastOrder.Quantity - TakerFilledBefore(k),
                                r.Quantity - MakerFilledBefore(r.ID, k))
    /\ \A r \in SeqSet(PrevOpp) :
         LET f == MakerFilledBefore(r.ID, NPairs + 1)
         IN IF f = r.Quantity
              THEN \A o \in SeqSet(PostOpp) : o.ID # r.ID
              ELSE [r EXCEPT !.Quantity = @ - f] \in SeqSet(PostOpp)
    /\ lastAfter.Quantity = lastOrder.Quantity - TakerFilledBefore(NPairs + 1)

\* a match whose taker offered another price than the maker's resting price
C1_Witness ==
  /\ submitted > 0
  /\ Len(lastTrades) >= 2
  /\ lastOrder.Price # lastTrades[1].Price

\* C2: resting orders of one side with the same price are filled strictly in
\* the order they were inserted (ids are handed out in insertion order), also
\* when their created_at timestamps are equal.
C2_FifoAtEqualPrice ==
  submitted > 0 =>
    \A k \in 1..NPairs :
      \A r \in SeqSet(PrevOpp) :
        (r.Price = lastTrades[2 * k].Price /\ r.ID < lastTrades[2 * k].OrderID)
          => MakerFilledBefore(r.ID, k) = r.Quantity

\* C3: a taker is matched against the best-priced opposing order first: maker
\* prices never improve along the trade list, and no maker is filled while a
\* strictly better-priced order of its side is still resting.
C3_BestPriceFirst ==
  submitted > 0 =>
    /\ \A k \in 1..NPairs :
         \A r \in SeqSet(PrevOpp) :
           Better(r.Price, lastTrades[2 * k].Price)
             => MakerFilledBefore(r.ID, k) = r.Quantity
    /\ \A k \in 1..(NPairs - 1) :
         ~Better(lastTrades[2 * k + 2].Price, lastTrades[2 * k].Price)

\* one taker filled by two makers at different prices
C3_Witness ==
  /\ submitted > 0
  /\ NPairs >= 2
  /\ lastTrades[2].Price # lastTrades[4].Price

MinPrice(S) == CHOOSE p \in {o.Price : o \in S} : \A o \in S : p <= o.Price

MaxPriceOf(S) == CHOOSE p \in {o.Price : o \in S} : \A o \in S : p >= o.Price

C5_MarketIocUnconditional ==
  (submitted > 0 /\ lastOrder.Type \in {Market, IOC}) =>
    (lastAfter.Quantity = 0 \/ PostOpp = <<>>)

\* C6: an IOC order never rests: no queue ever holds an IOC order, the IOC
\* taker's own side is left as it was, and with no opposing liquidity it
\* produces no trade and leaves the book unchanged.
C6_IocNeverRests ==
  /\ \A o \in Resting : o.Type # IOC
  /\ (submitted > 0 /\ lastOrder.Type = IOC) =>
       /\ \A o \in Resting : o.ID # lastOrder.ID
       /\ PostOwn = PrevOwn
       /\ PrevOpp = <<>> => (lastTrades = <<>> /\ bids = prevBids /\ asks = prevAsks)

\* an IOC taker that was filled in part and whose remainder was dropped
C6_Witness ==
  /\ submitted > 0
  /\ lastOrder.Type = IOC
  /\ lastTrades # <<>>
  /\ lastAfter.Quantity > 0

\* C7: a MARKET order never rests: no queue ever holds a MARKET order.
C7_MarketNeverRests == \A o \in Resting : o.Type # Market

\* C8: a maker filled in part stays in the book with its remaining quantity
\* reduced by the fill and keeps its priority: the order the next taker meets
\* first (the heap's root) is not a later-inserted order of the same price.
C8_PartialFillKeepsPriority ==
  submitted > 0 =>
    \A r \in SeqSet(PrevOpp) :
      LET f == MakerFilledBefore(r.ID, NPairs + 1)
      IN (0 < f /\ f < r.Quantity) =>
           /\ [r EXCEPT !.Quantity = @ - f] \in SeqSet(PostOpp)
           /\ PostOpp[1].Price = r.Price => PostOpp[1].ID <= r.ID

\* C9: every order of the order book has filled_qty <= quantity, its status is
\* FILLED iff filled_qty = quantity, and the quantities of the trades ingested
\* for a FILLED order add up to its quantity.
C9_FilledWithinQuantity ==
  \A id \in DOMAIN orders :
    LET o == orders[id]
    IN /\ o.FilledQty <= o.Quantity
       /\ o.Status = Filled <=> o.FilledQty = o.Quantity
       /\ o.Status = Filled => ingested[id] = o.Quantity

\* C10: once an order is FILLED, CANCELED or REJECTED no step changes any of
\* its fields.
C10_TerminalOrderFrozen ==
  [][\A id \in DOMAIN orders :
       orders[id].Status \in {Filled, Canceled, Rejected}
         => (id \in DOMAIN orders' /\ orders'[id] = orders[id])]_vars

\* C11: an order of the book with 0 < filled_qty < quantity has status
\* PART_FILLED (OnTrade sets FILLED at filled_qty >= quantity, PART_FILLED
\* otherwise).
C11_PartFilledStatus ==
  \A id \in DOMAIN orders :
    (0 < orders[id].FilledQty /\ orders[id].FilledQty < orders[id].Quantity)
      => orders[id].Status = PartFilled

\* ------------------------------------------------ reading the disk's state
\* the ids of the events on disk, in file order
DiskIds == SelectSeq([i \in DOMAIN esLog |-> IF esLog[i].json THEN esLog[i].ev.ID ELSE 0],
                     LAMBDA x : x > 0)

\* the live System State
Live == SystemStateOf(OmsState)

\* a snapshot file decodes and its stored checksum is the checksum of its contents
Intact(file) == file.readable /\ file.snap.Checksum = SnapshotChecksum(file.snap)

\* C12: without disk faults, whenever Replay returns a state, that state has the
\* checksum of the live System State (same last_event_id, timestamp, orders,
\* positions), whatever events were published and snapshots taken.
C12_ReplayEqualsLive ==
  (faults = 0 /\ ~crashed) =>
    \A r \in Replay(esLog, snaps) : ~r.err => Checksum(r.st) = Checksum(Live)

C14_FailedAppendInvisible ==
  lastPublish.appendFailed => (lastPublish.err /\ lastPublish.after = lastPublish.before)

\* C15: applying an event whose id is not greater than last_event_id leaves
\* orders, positions, last_event_id and timestamp unchanged.
C15_ApplyIdempotent ==
  (lastApply.called /\ lastApply.id <= lastApply.before[3])
    => lastApply.after = lastApply.before

\* C16: when the log reads cleanly and every retained snapshot is intact, Replay
\* from the newest snapshot yields the state that replaying the whole log from
\* the empty state yields.
C16_SnapshotReplayEqualsFullReplay ==
  (~lastApply.called /\ ~ReadFrom(esLog, 0).err /\ \A f \in DOMAIN snaps : Intact(snaps[f]))
    => \A r \in Replay(esLog, snaps) : r = replayFromBeginning(esLog)

\* C17: when the newest snapshot is unreadable or corrupt, or an event of the log
\* fails its checksum, Replay returns an error and no state.
C17_CorruptionIsFatal ==
  ((\E f \in LatestFiles(snaps) : ~Intact(snaps[f]))
     \/ (\E i \in DOMAIN esLog : esLog[i].json /\ ~Verify(esLog[i].ev)))
    => \A r \in Replay(esLog, snaps) : r.err

\* C18: Verify returns nil exactly when every event of the log verifies and every
\* retained snapshot's stored checksum is the checksum of its contents.
C18_VerifyDetectsCorruption ==
  VerifyAll(esLog, snaps)
    <=> (/\ \A i \in DOMAIN esLog : esLog[i].json /\ Verify(esLog[i].ev)
         /\ \A f \in DOMAIN snaps : Intact(snaps[f]))

\* the requests for one symbol, in submission order
ReqsOf(symbol) ==
  SelectSeq([k \in DOMAIN reqs |-> k], LAMBDA k : reqs[k].order.Symbol = symbol)

Answered(k) == reqs[k].at \in {"answered", "returned"}

\* C19: every order of a symbol goes to the one shard whose index is
\* fnv1a_32(symbol) mod N, an index within 0..N-1; a shard runs Match on its
\* requests one at a time in the order they entered its queue, so no two Match
\* executions on one book overlap.
C19_OneShardSerialMatch ==
  /\ \A k \in DOMAIN reqs :
       /\ reqs[k].shard \in 0..(shardNum - 1)
       /\ reqs[k].shard = ModN(Sum32(reqs[k].order.Symbol), shardNum)
  /\ \A i \in 0..(shardNum - 1) :
       entered[i] = matched[i] \o (IF cur[i] = 0 THEN <<>> ELSE <<cur[i]>>) \o inCh[i]
  /\ \A symbol \in Symbols :
       Cardinality({k \in DOMAIN reqs :
                      reqs[k].order.Symbol = symbol /\ reqs[k].at = "matching"}) <= 1

\* what a caller compares of a trade record
TradeFields(trades) ==
  [j \in DOMAIN trades |-> <<trades[j].OrderID, trades[j].Side, trades[j].Price,
                             trades[j].Qty, trades[j].IsMaker>>]

\* the trades of each order when the orders are matched one after another on
\* a book of their own
RECURSIVE Sequential(_, _, _)
Sequential(ks, b, a) ==
  IF ks = <<>> THEN <<>>
  ELSE LET m == Match(b, a, reqs[Head(ks)].order)
       IN <<TradeFields(m.trades)>> \o Sequential(Tail(ks), m.bids, m.asks)

\* C20: the trades of a symbol are those of matching its submissions one
\* after another in submission order, whatever the submissions to other
\* symbols and however they interleave, and every Submit call gets the
\* trades of its own order.
C20_SymbolTradesIndependent ==
  \A symbol \in Symbols :
    LET all  == ReqsOf(symbol)
        done == SelectSeq(all, Answered)
        seq  == Sequential(done, <<>>, <<>>)
    IN /\ done = SubSeq(all, 1, Len(done))
       /\ \A j \in DOMAIN done :
            /\ TradeFields(reqs[done[j]].trades) = seq[j]
            /\ \A t \in DOMAIN reqs[done[j]].trades :
                 reqs[done[j]].trades[t].Symbol = symbol

\* two symbols of one shard interleaved, the first one trading around the other
C20_Witness ==
  /\ ~panicked
  /\ Len(reqs) = 3
  /\ reqs[1].order.Symbol = reqs[3].order.Symbol
  /\ reqs[2].order.Symbol # reqs[1].order.Symbol
  /\ reqs[2].shard = reqs[1].shard
  /\ reqs[1].order.Side # reqs[2].order.Side
  /\ \A k \in 1..3 : reqs[k].at = "returned"
  /\ reqs[3].trades # <<>>
  /\ reqs[2].trades = <<>>
\* the trade lists, trade ids included, of the run that starts at clock 0 and
\* submits the orders one after another, each matched before the next is built
RECURSIVE ReferenceRun(_, _, _, _)
ReferenceRun(ks, j, b, a) ==
  IF ks = <<>> THEN <<>>
  ELSE LET m == Match(b, a, reqs[Head(ks)].order)
       IN <<Stamp(m.trades, j)>> \o ReferenceRun(Tail(ks), j + 1, m.bids, m.asks)

\* C21: two runs that submit the same orders for a symbol produce the same
\* trades, position by position: same trade_id, order_id, symbol, side,
\* price, qty and is_maker.  The run of the model is compared with the
\* reference run of the same orders.
C21_SameOrdersSameTrades ==
  \A symbol \in Symbols :
    LET done == SelectSeq(ReqsOf(symbol), Answered)
        ref  == ReferenceRun(done, 1, <<>>, <<>>)
    IN \A j \in DOMAIN done : reqs[done[j]].trades = ref[j]

\* the tasks dispatched to one worker, in dispatch order
TasksOf(i) == SelectSeq([k \in DOMAIN tasks |-> k], LAMBDA k : tasks[k].worker = i)

\* C22: tasks dispatched with one order id go to the worker order_id mod M,
\* and a worker runs its tasks one at a time in dispatch order: two tasks of
\* one order never run at the same time nor out of dispatch order.
C22_SameKeySerialInOrder ==
  /\ \A k \in DOMAIN tasks :
       /\ tasks[k].worker \in 0..(dispNum - 1)
       /\ tasks[k].worker = tasks[k].key % dispNum
  /\ \A i \in 0..(dispNum - 1) :
       /\ wRan[i] \o wCh[i] \o wBlocked[i] = TasksOf(i)
       /\ \A j \in 1..(Len(wRan[i]) - 1) : tasks[wRan[i][j]].at = "done"
  /\ \A k1, k2 \in DOMAIN tasks :
       (k1 < k2 /\ tasks[k1].key = tasks[k2].key)
         => /\ tasks[k2].at \in {"get", "set", "done"} => tasks[k1].at = "done"

\* three tasks, the first and the last for one order, all run, on two workers
C22_Witness ==
  /\ dispNum = 2
  /\ Len(tasks) = 3
  /\ tasks[1].key = tasks[3].key
  /\ tasks[2].key # tasks[1].key
  /\ \A k \in 1..3 : tasks[k].at = "done"

\* the sum of the quantities of the fills whose task has run to its end
RECURSIVE DoneQty(_)
DoneQty(k) ==
  IF k = 0 THEN 0
  ELSE DoneQty(k - 1) + (IF tasks[k].at = "done" THEN tasks[k].qty ELSE 0)

\* C23: the updates of one (user, symbol) position by fills dispatched on the
\* lanes order_id mod M are totally ordered: no two read-modify-write steps of
\* PositionService.OnTrade are in progress together and no fill is lost.
C23_PositionUpdatesTotallyOrdered ==
  /\ Cardinality({k \in DOMAIN tasks : tasks[k].at = "set"}) <= 1
  /\ (\A k \in DOMAIN tasks : tasks[k].at \in {"done", "queued", "blocked"})
       => dQty = DoneQty(Len(tasks))

\* the signed sum (BUY positive, SELL negative) of the fill quantities OnTrade
\* was given for the orders of a set
RECURSIVE SignedFills(_)
SignedFills(ids) ==
  IF ids = {} THEN 0
  ELSE LET id == CHOOSE x \in ids : TRUE
       IN signedQty(orders[id].Side, ingested[id]) + SignedFills(ids \ {id})

OrdersOf(k) == {id \in DOMAIN orders : key(orders[id].UserID, orders[id].Symbol) = k}

\* C24: after any sequence of fills applied through PositionService.OnTrade
\* the qty of a (user, symbol) position is the sum of their signed quantities.
C24_PositionQtyIsSignedSum ==
  /\ \A k \in DOMAIN positions : positions[k].Qty = SignedFills(OrdersOf(k))
  /\ \A id \in DOMAIN orders :
       ingested[id] > 0 => key(orders[id].UserID, orders[id].Symbol) \in DOMAIN positions

\* a position that a BUY fill and a SELL fill of two orders have gone into
C24_Witness ==
  \E k \in DOMAIN positions :
    /\ positions[k].Qty # 0
    /\ \E b, a \in OrdersOf(k) :
         /\ orders[b].Side = Buy /\ orders[a].Side = Sell
         /\ ingested[b] > 0 /\ ingested[a] > 0

\* C25: after any sequence of fills a position has margin >= 0 and, while
\* its qty is not 0, entry_price > 0.
C25_MarginAndEntryPrice ==
  \A k \in DOMAIN positions :
    /\ RLe(RInt(0), positions[k].Margin)
    /\ positions[k].Qty # 0 => positions[k].EntryPrice.n > 0

\* C26: Check(position, mark) is true exactly when
\* margin + (mark - entry_price) * qty <= |qty| * mark * 0.005, for long and
\* short positions; for qty 2, entry 40000, margin 8000 it is false at mark
\* 38000 and true at mark 35000.
C26_CheckIffEquityAtMostMaintenance ==
  chk.done =>
    LET q == chk.p.Qty
        e == chk.p.EntryPrice.n
        m == chk.p.Margin.n
    IN /\ chk.result <=> (m + (chk.mark - e) * q) * MMRDen <= Abs(q) * chk.mark * MMRNum
       /\ (q = 2 /\ e = 40000 /\ m = 8000 /\ chk.mark = 38000) => ~chk.result
       /\ (q = 2 /\ e = 40000 /\ m = 8000 /\ chk.mark = 35000) => chk.result

\* the position of the example checked at mark 35000, and a short position
\* checked where its equity equals its maintenance margin
C26_Witness ==
  /\ chk.done
  /\ chk.result
  /\ \/ chk.p.Qty = 2 /\ chk.p.EntryPrice = RInt(40000) /\ chk.p.Margin = RInt(8000)
          /\ chk.mark = 35000
     \/ chk.p.Qty = -1 /\ chk.p.EntryPrice = RInt(200) /\ chk.p.Margin = RInt(1)
          /\ chk.mark = 200

\* C27: a liquidation order handed to the gateway has the side opposite to
\* the sign of the position's qty, quantity |qty|, type MARKET, time-in-force
\* IOC, reason LIQUIDATION, the position's user and symbol, and an id the
\* generator gave to no earlier order or liquidation order.
C27_LiquidationOrderShape ==
  \A i \in DOMAIN gateway :
    LET lo == gateway[i]
        k  == key(lo.UserID, lo.Symbol)
    IN /\ k \in DOMAIN positions
       /\ positions[k].Qty > 0 => lo.Side = Sell
       /\ positions[k].Qty < 0 => lo.Side = Buy
       /\ lo.Quantity = Abs(positions[k].Qty)
       /\ lo.OrderType = Market
       /\ lo.TimeInForce = "IOC"
       /\ lo.Reason = "LIQUIDATION"
       /\ lo.OrderID \notin DOMAIN orders
       /\ lo.OrderID \in (GeneratorStart + 1)..idGen
       /\ \A j \in DOMAIN gateway : j # i => gateway[j].OrderID # lo.OrderID

\* a short position has been liquidated with a BUY order
C27_Witness ==
  /\ gateway # <<>>
  /\ gateway[1].Side = Buy
  /\ positions[key(gateway[1].UserID, gateway[1].Symbol)].Qty < 0

\* C28: the liquidation loop closes: once the gateway has returned the fill
\* of a liquidation order through OrderService.OnTrade, the liquidated
\* position has qty 0 and no further liquidation order is issued for it.
C28_LiquidationLoopCloses ==
  \A i \in DOMAIN gateway :
    LET k == key(gateway[i].UserID, gateway[i].Symbol)
    IN /\ ~crashed
       /\ positions[k].Qty = 0
       /\ \A j \in DOMAIN gateway :
            j # i => key(gateway[j].UserID, gateway[j].Symbol) # k

\* C29: after Close every request already enqueued on a shard completes, and
\* a Submit made after Close fails and returns: no Submit call made on a
\* closed engine, before or after the Close, waits forever.
C29_CloseCompletesOrRefuses ==
  \A k \in 1..MaxReqs :
    (closed /\ ~panicked /\ k \in DOMAIN reqs)
      ~> (panicked \/ (k \in DOMAIN reqs /\ reqs[k].at = "returned"))

\* every request is in exactly one place and was matched at most once; the
\* same for the tasks
NothingDroppedOrRepeated ==
  /\ \A k \in DOMAIN reqs :
       reqs[k].at # "panicked" =>
         /\ Cardinality({j \in DOMAIN entered[reqs[k].shard] :
                           entered[reqs[k].shard][j] = k})
              + Cardinality({j \in DOMAIN blocked[reqs[k].shard] :
                               blocked[reqs[k].shard][j] = k}) = 1
         /\ Cardinality({j \in DOMAIN matched[reqs[k].shard] :
                           matched[reqs[k].shard][j] = k})
              = (IF Answered(k) THEN 1 ELSE 0)
  /\ \A k \in DOMAIN tasks :
       LET w == tasks[k].worker
       IN /\ Cardinality({j \in DOMAIN wRan[w] : wRan[w][j] = k})
               + Cardinality({j \in DOMAIN wCh[w] : wCh[w][j] = k})
               + Cardinality({j \in DOMAIN wBlocked[w] : wBlocked[w][j] = k}) = 1
          /\ tasks[k].waited => Len(TasksOf(w)) > WorkerCap

\* every Submit call made has returned and every task dispatched has run
Settled ==
  /\ \A k \in DOMAIN reqs : reqs[k].at = "returned"
  /\ \A k \in DOMAIN tasks : tasks[k].at = "done"

\* C30: while engine and dispatcher run, a submitter that finds the queue of
\* a shard or worker full waits for room; no request or task is dropped,
\* each is executed exactly once, and under fair scheduling every Submit call
\* returns and every task runs: once the callers stop calling, all calls made
\* have returned and all tasks have run.
C30_FullQueueBlocksNothingLost ==
  /\ []NothingDroppedOrRepeated
  /\ <>[](panicked \/ Settled)

\* a Submit call that found inCh full has returned
C30_Witness ==
  \E k \in DOMAIN reqs : reqs[k].waited /\ reqs[k].at = "returned" /\ ~panicked

\* C32: a fill in the direction of an existing position makes its
\* entry_price (entry_price * qty + price * signed_qty) / (qty + signed_qty)
\* and its qty qty + signed_qty; margin, leverage, user and symbol stay and
\* no other position is touched.
C32_SameDirectionFillFrame ==
  \A k \in DOMAIN positions :
    \A q \in 1..MaxTradeQty, price \in 1..MaxTradePrice :
      LET p   == positions[k]
          sq  == Sign(p.Qty) * q
          st2 == PositionOnTrade(OmsState, p.UserID, p.Symbol, sq, price,
                                 DefaultLeverage, IoOk, now)
          p2  == st2.positions[k]
      IN (p.Qty # 0 /\ ~crashed) =>
           /\ DOMAIN st2.positions = DOMAIN positions
           /\ p2.Qty = p.Qty + sq
           /\ p2.EntryPrice = Rat(p.EntryPrice.n * p.Qty + price * sq * p.EntryPrice.d,
                                  p.EntryPrice.d * (p.Qty + sq))
           /\ p2.Margin = p.Margin
           /\ p2.Leverage = p.Leverage
           /\ p2.UserID = p.UserID
           /\ p2.Symbol = p.Symbol
           /\ \A j \in DOMAIN positions : j # k => st2.positions[j] = positions[j]

\* a position two BUY fills at different prices have gone into, next to the
\* position of another user
C32_Witness ==
  \E k \in DOMAIN positions :
    /\ positions[k].Qty = 2
    /\ positions[k].EntryPrice = Rat(3, 2)
    /\ positions[k].Margin # RDiv(RInt(2), RInt(DefaultLeverage))
    /\ ~crashed

\* C39: after any sequence of LIMIT submissions every resting order has
\* remaining quantity > 0 and the book is not crossed: every bid, the best one
\* included, is priced strictly below every ask.
C39_LimitBookPositiveUncrossed ==
  /\ \A o \in Resting : o.Quantity > 0
  /\ \A b \in SeqSet(bids), a \in SeqSet(asks) : b.Price < a.Price
  /\ (bids # <<>> /\ asks # <<>>) => bids[1].Price < asks[1].Price

\* both sides rest after a LIMIT taker was partly filled and rested itself
C39_Witness ==
  /\ bids # <<>>
  /\ asks # <<>>
  /\ lastTrades # <<>>
  /\ lastAfter.Quantity > 0
  /\ lastAfter \in Resting

\* the trade records the engine has produced: <<request, position>> of each
TradeRecords ==
  {x \in (DOMAIN reqs) \X (1..(2 * MaxReqs)) : x[2] \in DOMAIN reqs[x[1]].trades}

\* C40: any two trade records of the matching engine carry different
\* trade_ids, the taker and the maker record of one match and the trades of
\* one millisecond included.
C40_TradeIdsUnique ==
  \A x \in TradeRecords, y \in TradeRecords :
    x # y => reqs[x[1]].trades[x[2]].TradeID # reqs[y[1]].trades[y[2]].TradeID

\* C35: after every successful EventBus.Publish, SystemState.LastEventID is
\* the id the EventStore assigned to the event (EventStore.LastSequenceID), so
\* a snapshot carries as sequence_id the id of the last event it contains.
C35_LastEventIdIsAssignedId ==
  (lastPublish.called /\ ~lastPublish.err) =>
    /\ lastPublish.after[3] = lastPublish.assigned
    /\ ToSnapshot([orders |-> lastPublish.after[1], positions |-> lastPublish.after[2],
                   ssLastEventID |-> lastPublish.after[3],
                   ssTimestamp |-> ssTimestamp]).SequenceID = lastPublish.assigned

\* C36: OrderService.OnTrade for a trade whose order_id is not in the order
\* book, such as the gateway's fill of a liquidation order, completes without
\* failure, changes no order and applies the trade to the position of the
\* trade's user and symbol.
C36_UnknownOrderTradeCompletes ==
  \A i \in DOMAIN gateway :
    LET t == MockTrade(gateway[i])
    IN /\ t.OrderID \notin DOMAIN orders
       /\ ~crashed
       /\ key(t.UserID, t.Symbol) \in DOMAIN positions

\* C38: OnTrade never issues a liquidation for a flat position: every
\* liquidation order sent has quantity > 0, also for a position created by a
\* fill of quantity 0 or of price 0 (margin 0).
C38_LiquidationQuantityPositive ==
  \A i \in DOMAIN gateway : gateway[i].Quantity > 0

\* the file a TakeSnapshot of the live state writes
NewSnapshotFile == FileName(ToSnapshot(SystemStateOf(OmsState)))

\* C33: after every successful TakeSnapshot the directory holds at most
\* RetentionCount snapshot files, those with the highest sequence ids of all
\* there were, and the snapshot just written is still there.
C33_RetentionKeepsNewest ==
  [][(taken' = taken + 1 /\ lastSnap' = "written") =>
       /\ Cardinality(DOMAIN snaps') <= RetentionCount
       /\ \A f \in DOMAIN snaps', g \in (DOMAIN snaps \cup {NewSnapshotFile}) \ DOMAIN snaps' :
            SequenceOf(f) >= SequenceOf(g)
       /\ NewSnapshotFile \in DOMAIN snaps']_vars

\* C34: snapshot writes are atomic: whatever step TakeSnapshot stops or fails
\* at, no file with a final snapshot name is created or changed into partial
\* content, so LoadLatest and List, which read the final names only, see
\* completely written snapshots; what is left under a .tmp name is not listed.
C34_SnapshotWriteAtomic ==
  [][taken' = taken + 1 =>
       \A f \in DOMAIN snaps' :
         (f \notin DOMAIN snaps \/ snaps'[f] # snaps[f]) =>
           (snaps'[f].readable /\ snaps'[f].snap.Checksum = SnapshotChecksum(snaps'[f].snap))]_vars

\* a TakeSnapshot stopped inside writeSnapshot: its partial file is in the
\* directory next to a snapshot written earlier
C34_Witness ==
  /\ lastSnap = "failed"
  /\ \E f \in DOMAIN tmps : ~tmps[f].readable
  /\ snaps # <<>>
  /\ taken = 2

\* C31: under concurrent Publish calls the events are applied to the System
\* State in the order of the ids they receive in the log: the apply and the
\* append of one Publish are never interleaved with those of another.
C31_ApplyOrderIsLogOrder ==
  /\ \A i \in DOMAIN esLog :
       /\ esLog[i].ev.ID = i
       /\ i <= Len(applied)
       /\ applied[i] = esLog[i].ev.Data.Order.ID
  /\ Len(applied) <= Len(esLog) + 1
  /\ Cardinality({g \in Publishers : pubPc[g] \in {"locked", "head", "body"}}) <= 1

\* one goroutine waits at the mutex while another is between its apply and its
\* append, an earlier event being in the log
C31_Witness ==
  \E g \in Publishers, h \in Publishers :
    /\ pubPc[g] = "made"
    /\ pubPc[h] = "body"
    /\ Len(esLog) >= 1

\* C37: a snapshot taken while Publish calls run equals the System State after
\* some prefix of the published events: its sequence_id, timestamp, orders and
\* positions are never a mix of before and after an event.
C37_SnapshotIsPrefixState ==
  snapPc = "done" =>
    \E i \in DOMAIN hist :
      /\ snapBuf.SequenceID = hist[i].ssLastEventID
      /\ snapBuf.Timestamp = hist[i].ssTimestamp
      /\ snapBuf.Orders = hist[i].orders
      /\ snapBuf.Positions = hist[i].positions

====
